---- MODULE Spec2Model ----
(***************************************************************************)
(* Model of govm's version lifecycle engine: the installer, the            *)
(* downloader, the file-backed metadata store, the switcher with the       *)
(* shell-config merge, and the uninstaller.                                *)
(*                                                                         *)
(* A path is a sequence of components; the filesystem `fs` maps the        *)
(* absolute path of every existing node to the node.  Each command is one  *)
(* action; the I/O step that fails (or at which the process dies) is an    *)
(* input of the action.                                                    *)
(***************************************************************************)
EXTENDS Naturals, Sequences, FiniteSets, TLC

VARIABLES
    fs,        \* directories, files and symbolic links under the data root
    metaFile,  \* content of <root>/metadata.json
    curFile,   \* content of <root>/current (the active marker)
    rcFile,    \* content of the shell configuration files
    envShell,  \* $SHELL of the user's session
    last,      \* the call that ran last: its arguments and its outcome
    nfaults,   \* the I/O failures and process deaths so far
    cache,             \* Detector.cache
    fallbackEndpoint,  \* Detector.fallbackEndpoint
    calls,             \* the CountryCode call of every caller, if one is going on
    ncalls,            \* the CountryCode calls started so far
    returned,          \* the codes that CountryCode calls have returned
    lastCall,          \* the CountryCode call that returned last
    cached,     \* Client.cached
    cachedAt,   \* Client.cachedAt
    clock,      \* the time
    held,       \* the list that the last FetchVersions call handed to its caller
    fetched,    \* the list that the remote source sent last, and when
    nfetch,     \* the FetchVersions calls so far
    lastFetch,  \* the FetchVersions call that returned last
    given,      \* the arguments of a function under study
    answer,     \* what it returned for them
    mu,         \* FileStorage.mu: the goroutine that holds it, 0 when it is free
    threads,    \* the call of every goroutine, if one is going on
    settled     \* the collection as the store calls that have returned leave it

storeVars == <<fs, metaFile, curFile, rcFile, envShell, last, nfaults>>
detectorVars == <<cache, fallbackEndpoint, calls, ncalls, returned, lastCall>>
clientVars == <<cached, cachedAt, clock, held, fetched, nfetch, lastFetch>>
pureVars == <<given, answer>>
threadVars == <<mu, threads, settled>>
vars == <<storeVars, detectorVars, clientVars, pureVars, threadVars>>

\* No function is under study.
NotCalled == [done |-> FALSE, value |-> <<>>]

Returned(value) == [done |-> TRUE, value |-> value]

InitPure == given = <<>> /\ answer = NotCalled

\* No goroutine calls the store.
InitThreads == mu = 0 /\ threads = <<>> /\ settled = <<>>

(***************************************************************************)
(* Bounds.                                                                 *)
(***************************************************************************)
NumVersions == 2
NumCallers == 2
MaxCalls == 3
CacheTTL == 2
MaxClock == 4
MaxFetches == 4
MaxFiles == 3
MaxTime == 1
MaxFaults == 1

AllNumbers == <<"1.20", "1.21", "1.22", "1.23">>
Numbers == {AllNumbers[i] : i \in 1..NumVersions}
Times == 1..MaxTime

(***************************************************************************)
(* Paths.                                                                  *)
(***************************************************************************)
RootDir == <<"govm">>
VersionsDir == RootDir \o <<"versions">>
DownloadsDir == RootDir \o <<"downloads">>
TempName == "install-tmp"
DownloadTempName == "download-tmp"

IsPrefix(p, q) == Len(p) <= Len(q) /\ SubSeq(q, 1, Len(p)) = p

Front(p) == SubSeq(p, 1, Len(p) - 1)

RECURSIVE CleanFrom(_, _, _)
CleanFrom(acc, rest, rooted) ==
    IF rest = <<>> THEN acc
    ELSE LET c == Head(rest) IN
         IF c = "" \/ c = "." THEN CleanFrom(acc, Tail(rest), rooted)
         ELSE IF c = ".."
              THEN IF acc # <<>> /\ acc[Len(acc)] # ".."
                   THEN CleanFrom(Front(acc), Tail(rest), rooted)
                   ELSE IF rooted THEN CleanFrom(acc, Tail(rest), rooted)
                        ELSE CleanFrom(Append(acc, ".."), Tail(rest), rooted)
              ELSE CleanFrom(Append(acc, c), Tail(rest), rooted)

\* path.Clean on a slash-separated name, given as its components; a leading
\* empty component marks a rooted name and is kept.  <<>> stands for ".".
Clean(name) ==
    IF name # <<>> /\ Head(name) = ""
    THEN <<"">> \o CleanFrom(<<>>, Tail(name), TRUE)
    ELSE CleanFrom(<<>>, name, FALSE)

GetInstallPath(number) == VersionsDir \o <<"go" \o number>>

(***************************************************************************)
(* Strings that the code takes apart are sequences of characters.          *)
(***************************************************************************)
\* strings.TrimSpace on a sequence of characters.
RECURSIVE TrimSpaces(_)
TrimSpaces(t) ==
    IF t = <<>> THEN t
    ELSE IF Head(t) \in {" ", "\t", "\n", "\r"} THEN TrimSpaces(Tail(t))
    ELSE IF t[Len(t)] \in {" ", "\t", "\n", "\r"} THEN TrimSpaces(Front(t))
    ELSE t

\* The simple case folding of a letter of the model.
FoldChar(c) ==
    CASE c = "A" -> "a" [] c = "B" -> "b" [] c = "C" -> "c" [] c = "N" -> "n"
      [] c = "U" -> "u" [] OTHER -> c

\* A comparison that tells the cases apart.
EqualExact(a, b) == a = b

\* strings.EqualFold.
EqualFold(a, b) ==
    Len(a) = Len(b) /\ \A i \in 1..Len(a) : FoldChar(a[i]) = FoldChar(b[i])

(***************************************************************************)
(* Filesystem.                                                             *)
(***************************************************************************)
DirNode == [kind |-> "dir"]
FileNode(d) == [kind |-> "file", data |-> d]
LinkNode(t) == [kind |-> "link", target |-> t]

Exists(f, p) == p \in DOMAIN f

Put(f, p, node) == [q \in (DOMAIN f) \cup {p} |-> IF q = p THEN node ELSE f[q]]

RemoveAll(f, p) == [q \in {r \in DOMAIN f : ~IsPrefix(p, r)} |-> f[q]]

\* os.Rename of a directory onto a path that does not exist.
RenameTree(f, from, to) ==
    LET moved == {r \in DOMAIN f : IsPrefix(from, r)}
        kept == (DOMAIN f) \ moved
        dst(r) == to \o SubSeq(r, Len(from) + 1, Len(r))
    IN  [q \in kept \cup {dst(r) : r \in moved} |->
            IF q \in kept THEN f[q]
            ELSE f[CHOOSE r \in moved : dst(r) = q]]

\* Follows symbolic links component by component, as the kernel does.
\* cur is the resolved path so far, rest the components still to walk.
\* Yields [ok, path, leaf]: ok is FALSE when a component is missing or is a
\* file with components left; leaf tells that the missing component was the
\* last one, so that a file could be created at path.
RECURSIVE Walk(_, _, _)
Walk(f, cur, rest) ==
    IF rest = <<>> THEN [ok |-> TRUE, path |-> cur, leaf |-> FALSE]
    ELSE LET c == Head(rest)
             nxt == Append(cur, c)
         IN  IF c = "" THEN Walk(f, <<>>, Tail(rest))
             ELSE IF c = "." THEN Walk(f, cur, Tail(rest))
             ELSE IF c = ".."
                  THEN Walk(f, IF cur = <<>> THEN cur ELSE Front(cur), Tail(rest))
             ELSE IF ~Exists(f, nxt)
                  THEN [ok |-> FALSE, path |-> nxt, leaf |-> Tail(rest) = <<>>]
             ELSE IF f[nxt].kind = "link"
                  THEN Walk(f, cur, f[nxt].target \o Tail(rest))
             ELSE IF f[nxt].kind = "file" /\ Tail(rest) # <<>>
                  THEN [ok |-> FALSE, path |-> nxt, leaf |-> FALSE]
             ELSE Walk(f, nxt, Tail(rest))

\* os.Stat: "dir", "file" or "none".
Stat(f, p) ==
    LET w == Walk(f, <<>>, p) IN
    IF ~w.ok THEN "none"
    ELSE IF w.path = <<>> THEN "dir"
    ELSE f[w.path].kind

\* os.MkdirAll: creates the missing directories of p; fails on a component
\* that is a file, or a symbolic link that does not lead to a directory.
RECURSIVE MkdirFrom(_, _, _)
MkdirFrom(f, cur, rest) ==
    IF rest = <<>> THEN [ok |-> TRUE, fs |-> f]
    ELSE LET c == Head(rest)
             nxt == Append(cur, c)
         IN  IF ~Exists(f, nxt)
             THEN MkdirFrom(Put(f, nxt, DirNode), nxt, Tail(rest))
             ELSE IF f[nxt].kind = "dir" THEN MkdirFrom(f, nxt, Tail(rest))
             ELSE IF f[nxt].kind = "file" THEN [ok |-> FALSE, fs |-> f]
             ELSE LET w == Walk(f, cur, f[nxt].target) IN
                  IF w.ok /\ (w.path = <<>> \/ f[w.path].kind = "dir")
                  THEN MkdirFrom(f, w.path, Tail(rest))
                  ELSE [ok |-> FALSE, fs |-> f]

MkdirAll(f, p) == MkdirFrom(f, <<>>, p)

\* os.OpenFile(O_CREATE|O_WRONLY|O_TRUNC) followed by the copy of the data:
\* the directory of p is resolved through links, the file is created or
\* truncated; opening a directory fails.
WriteFile(f, p, data) ==
    LET w == Walk(f, <<>>, Front(p)) IN
    IF ~w.ok \/ (w.path # <<>> /\ f[w.path].kind # "dir")
    THEN [ok |-> FALSE, fs |-> f]
    ELSE LET fin == Walk(f, w.path, <<p[Len(p)]>>) IN
         IF fin.ok /\ fin.path # <<>> /\ f[fin.path].kind = "file"
         THEN [ok |-> TRUE, fs |-> Put(f, fin.path, FileNode(data))]
         ELSE IF ~fin.ok /\ fin.leaf
              THEN [ok |-> TRUE, fs |-> Put(f, fin.path, FileNode(data))]
              ELSE [ok |-> FALSE, fs |-> f]

\* os.Symlink(linkname, p): p must not exist, its directory must.
Symlink(f, linkname, p) ==
    LET w == Walk(f, <<>>, Front(p)) IN
    IF ~w.ok \/ (w.path # <<>> /\ f[w.path].kind # "dir")
       \/ Exists(f, Append(w.path, p[Len(p)]))
    THEN [ok |-> FALSE, fs |-> f]
    ELSE [ok |-> TRUE, fs |-> Put(f, Append(w.path, p[Len(p)]), LinkNode(linkname))]

(***************************************************************************)
(* Archives.  An archive is a gzip flag and its tar entries in order; an   *)
(* entry has a name (its slash-separated components), a type flag, a link  *)
(* name (symbolic links) and its data (regular files).                     *)
(***************************************************************************)
Entry(name, type, link, data) ==
    [name |-> name, type |-> type, link |-> link, data |-> data]

DirEntry(name) == Entry(name, "dir", <<>>, "")
RegEntry(name, data) == Entry(name, "reg", <<>>, data)
LinkEntry(name, link) == Entry(name, "symlink", link, "")
OtherEntry(name) == Entry(name, "other", <<>>, "")

\* The archive of a release: go/, go/bin/, go/bin/go, go/VERSION.
GoodArchive ==
    [gzip |-> TRUE,
     entries |-> << DirEntry(<<"go", "">>),
                    DirEntry(<<"go", "bin", "">>),
                    RegEntry(<<"go", "bin", "go">>, "go-binary"),
                    RegEntry(<<"go", "VERSION">>, "version") >>]

\* An archive with an entry named go/../../x between two regular entries.
TraversalArchive ==
    [gzip |-> TRUE,
     entries |-> << RegEntry(<<"go", "bin", "go">>, "go-binary"),
                    RegEntry(<<"go", "..", "..", "x">>, "escaped"),
                    RegEntry(<<"go", "after">>, "after") >>]

\* An archive holding a symbolic link to the install directory of the first
\* version, a regular file below that link, and an entry of a type that
\* extraction does not support.
LinkArchive ==
    [gzip |-> TRUE,
     entries |-> << LinkEntry(<<"go", "link">>, <<"..", "..", "go" \o AllNumbers[1]>>),
                    RegEntry(<<"go", "link", "bin", "go">>, "overwritten"),
                    OtherEntry(<<"go", "dev">>) >>]

\* The files of a release under a top-level directory of another name:
\* golang/, golang/bin/, golang/bin/go, golang/VERSION.
RenamedArchive ==
    [gzip |-> TRUE,
     entries |-> << DirEntry(<<"golang", "">>),
                    DirEntry(<<"golang", "bin", "">>),
                    RegEntry(<<"golang", "bin", "go">>, "go-binary"),
                    RegEntry(<<"golang", "VERSION">>, "version") >>]

\* An archive in which go/bin/go is a directory.
DirBinArchive ==
    [gzip |-> TRUE,
     entries |-> << DirEntry(<<"go", "bin", "go", "">>),
                    RegEntry(<<"go", "VERSION">>, "version") >>]

\* A file that is not a gzip stream.
InvalidArchive == [gzip |-> FALSE, entries |-> <<>>]

ArchiveIds == {"good", "traversal", "link", "invalid", "renamed", "dirbin"}

ArchiveOf(id) ==
    CASE id = "good" -> GoodArchive
      [] id = "traversal" -> TraversalArchive
      [] id = "link" -> LinkArchive
      [] id = "renamed" -> RenamedArchive
      [] id = "dirbin" -> DirBinArchive
      [] OTHER -> InvalidArchive

(***************************************************************************)
(* Extraction.                                                             *)
(***************************************************************************)
\* normalizeTarPath: [rel, skip].  path.Clean leaves no leading "./", so the
\* TrimPrefix of "./" changes nothing.
normalizeTarPath(name) ==
    LET clean == Clean(name) IN
    IF clean = <<"go">> \/ clean = <<>> THEN [rel |-> <<>>, skip |-> TRUE]
    ELSE IF Head(clean) = "go"
         THEN [rel |-> Tail(clean), skip |-> FALSE]
         ELSE [rel |-> <<>>, skip |-> TRUE]

\* ensureWithinRoot: TRUE when the target is accepted.
ensureWithinRoot(root, target) ==
    \/ Clean(target) = Clean(root)
    \/ IsPrefix(Clean(root), Clean(target)) /\ Len(Clean(target)) > Len(Clean(root))

\* One entry of the loop of extractTarGz: [ok, fs].
ExtractEntry(f, e, dest) ==
    LET n == normalizeTarPath(e.name) IN
    IF n.skip THEN [ok |-> TRUE, fs |-> f]
    ELSE LET target == Clean(dest \o n.rel) IN
         IF ~ensureWithinRoot(dest, target) THEN [ok |-> FALSE, fs |-> f]
         ELSE CASE e.type = "dir" -> MkdirAll(f, target)
                [] e.type = "reg" ->
                     LET m == MkdirAll(f, Front(target)) IN
                     IF ~m.ok THEN m ELSE WriteFile(m.fs, target, e.data)
                [] e.type = "symlink" -> Symlink(f, e.link, target)
                [] OTHER -> [ok |-> FALSE, fs |-> f]

\* The loop of extractTarGz over the entries from index i on.  stop is the
\* number of entries after which the run is cut short by an I/O failure
\* (Len(entries) when there is none).
RECURSIVE ExtractFrom(_, _, _, _, _)
ExtractFrom(f, entries, dest, i, stop) ==
    IF i > Len(entries) THEN [ok |-> TRUE, fs |-> f]
    ELSE IF i > stop THEN [ok |-> FALSE, fs |-> f]
    ELSE LET r == ExtractEntry(f, entries[i], dest) IN
         IF ~r.ok THEN r ELSE ExtractFrom(r.fs, entries, dest, i + 1, stop)

\* extractTarGz(archivePath, dest): [ok, fs].
extractTarGz(f, archivePath, dest, stop) ==
    IF Stat(f, archivePath) # "file" THEN [ok |-> FALSE, fs |-> f]
    ELSE LET a == ArchiveOf(f[Walk(f, <<>>, archivePath).path].data) IN
         IF ~a.gzip THEN [ok |-> FALSE, fs |-> f]
         ELSE ExtractFrom(f, a.entries, dest, 1, stop)

(***************************************************************************)
(* Faults.  A fault names the I/O step of a call that goes wrong and how:  *)
(* at is the step, mode the way, k an index (the entry of the archive or   *)
(* the record of the loop at which it strikes).  A write made by           *)
(* os.WriteFile opens the file with O_TRUNC and then writes the data, so   *)
(* it can fail before the file is touched ("open"), after the truncation   *)
(* ("empty") or after a part of the data ("partial"); the process can also *)
(* die at these two points ("crashEmpty", "crashPartial").                 *)
(***************************************************************************)
NoFault == [at |-> "none", mode |-> "ok", k |-> 0]
Fault(at, mode, k) == [at |-> at, mode |-> mode, k |-> k]

WriteErrModes == {"open", "empty", "partial"}
WriteCrashModes == {"crashEmpty", "crashPartial"}
IsCrash(mode) == mode \in {"crash", "crashEmpty", "crashPartial"}

\* The mode with which the step `at` (index k) runs under fault ft.
ModeAt(ft, at, k) == IF ft.at = at /\ ft.k = k THEN ft.mode ELSE "ok"

\* What the return state of a call becomes when a step ends in `mode`.
RetOf(mode) == IF mode = "ok" THEN "run" ELSE IF IsCrash(mode) THEN "crash" ELSE "err"

\* The content a file holds after os.WriteFile(new) ended in `mode`.
Written(old, new, empty, partial, mode) ==
    CASE mode = "ok" -> new
      [] mode = "open" -> old
      [] mode \in {"empty", "crashEmpty"} -> empty
      [] OTHER -> partial

(***************************************************************************)
(* Metadata store (FileStorage).                                           *)
(***************************************************************************)
AbsentMeta == [st |-> "absent", versions |-> <<>>]
EmptyMeta == [st |-> "empty", versions |-> <<>>]
PartialMeta == [st |-> "partial", versions |-> <<>>]

\* The fields of models.Version, in the order json.MarshalIndent writes
\* them, and the zero value of the type.
VersionFields ==
    <<"Number", "FullName", "DownloadURL", "FileName", "Checksum", "OS", "Arch",
      "InstallPath", "IsCurrent", "InstalledAt">>

ZeroVersion ==
    [Number |-> "", FullName |-> "", DownloadURL |-> "", FileName |-> "",
     Checksum |-> <<>>, OS |-> "", Arch |-> "", InstallPath |-> <<>>,
     IsCurrent |-> FALSE, InstalledAt |-> 0]

\* time.Time.MarshalJSON and UnmarshalJSON: the instant in RFC 3339 form.
FormatTime(t) == <<"rfc3339", t, "Z">>
ParseTime(text) == text[2]

\* The JSON object of the first n fields of v: its members by their names.
MarshalFields(v, n) ==
    [key \in {VersionFields[i] : i \in 1..n} |->
        IF key = "InstalledAt" THEN FormatTime(v.InstalledAt) ELSE v[key]]

\* An encoding that leaves out the last field.
MarshalVersionShort(v) == MarshalFields(v, Len(VersionFields) - 1)

\* json.Marshal of a models.Version.
MarshalVersion(v) == MarshalFields(v, Len(VersionFields))

\* The value json.Unmarshal stores for the field `key`: that of the member
\* of the name, the zero value when there is none.
Member(obj, key, zero) == IF key \in DOMAIN obj THEN obj[key] ELSE zero

\* json.Unmarshal into a models.Version.
UnmarshalVersion(obj) ==
    [Number |-> Member(obj, "Number", ""),
     FullName |-> Member(obj, "FullName", ""),
     DownloadURL |-> Member(obj, "DownloadURL", ""),
     FileName |-> Member(obj, "FileName", ""),
     Checksum |-> Member(obj, "Checksum", <<>>),
     OS |-> Member(obj, "OS", ""),
     Arch |-> Member(obj, "Arch", ""),
     InstallPath |-> Member(obj, "InstallPath", <<>>),
     IsCurrent |-> Member(obj, "IsCurrent", FALSE),
     InstalledAt |-> ParseTime(Member(obj, "InstalledAt", FormatTime(0)))]

\* readMetadataLocked: [err, versions]; err is "notexist", "json" or "".
\* The file holds the JSON objects of the records.
readMetadataLocked(m) ==
    CASE m.st = "absent" -> [err |-> "notexist", versions |-> <<>>]
      [] m.st = "empty" -> [err |-> "", versions |-> <<>>]
      [] m.st = "partial" -> [err |-> "json", versions |-> <<>>]
      [] OTHER -> [err |-> "",
                   versions |-> [i \in 1..Len(m.versions) |->
                                    UnmarshalVersion(m.versions[i])]]

\* writeMetadataLocked: the file after the write ended in `mode`.
writeMetadataLocked(m, versions, mode) ==
    Written(m, [st |-> "ok",
                versions |-> [i \in 1..Len(versions) |-> MarshalVersion(versions[i])]],
            EmptyMeta, PartialMeta, mode)

\* LoadMetadata: [err, versions]; a missing file is the empty collection.
LoadMetadata(m) ==
    LET r == readMetadataLocked(m) IN
    IF r.err = "notexist" THEN [err |-> "", versions |-> <<>>] ELSE r

IndexOf(versions, number) ==
    IF \E i \in 1..Len(versions) : versions[i].Number = number
    THEN CHOOSE i \in 1..Len(versions) :
            /\ versions[i].Number = number
            /\ \A j \in 1..(i - 1) : versions[j].Number # number
    ELSE 0

\* A SaveMetadata that always appends.
UpsertAppend(versions, version) == Append(versions, version)

\* SaveMetadata, lines 593-603: replace the record of the number or append.
Upsert(versions, version) ==
    LET i == IndexOf(versions, version.Number) IN
    IF i = 0 THEN Append(versions, version)
    ELSE [versions EXCEPT ![i] = version]

\* SaveMetadata: [ok, meta].
SaveMetadata(m, version, mode) ==
    LET r == readMetadataLocked(m) IN
    IF r.err = "json" THEN [ok |-> FALSE, meta |-> m]
    ELSE [ok |-> mode = "ok",
          meta |-> writeMetadataLocked(m, Upsert(r.versions, version), mode)]

RECURSIVE Without(_, _)
Without(versions, number) ==
    IF versions = <<>> THEN <<>>
    ELSE IF Head(versions).Number = number THEN Without(Tail(versions), number)
         ELSE <<Head(versions)>> \o Without(Tail(versions), number)

\* DeleteMetadata: [ok, meta]; nothing is written when the file is missing.
DeleteMetadata(m, number, mode) ==
    LET r == readMetadataLocked(m) IN
    IF r.err = "notexist" THEN [ok |-> TRUE, meta |-> m]
    ELSE IF r.err = "json" THEN [ok |-> FALSE, meta |-> m]
    ELSE [ok |-> mode = "ok",
          meta |-> writeMetadataLocked(m, Without(r.versions, number), mode)]

(***************************************************************************)
(* Active marker.                                                          *)
(***************************************************************************)
Padded(t) == " " \o t \o " "

\* strings.TrimSpace, on the strings the model passes to it.
TrimSpace(t) ==
    IF t = " " THEN ""
    ELSE IF \E n \in Numbers : t = Padded(n)
         THEN CHOOSE n \in Numbers : t = Padded(n)
         ELSE t

AbsentCur == [st |-> "absent", text |-> ""]
CurText(t) == [st |-> "ok", text |-> t]
\* The bytes of an interrupted write: a proper prefix of the text, which is
\* the number of no version.
Torn == "1."

\* GetCurrentVersionMarker.
GetCurrentVersionMarker(c) == IF c.st = "absent" THEN "" ELSE TrimSpace(c.text)

\* SetCurrentVersionMarker: [ok, cur].
SetCurrentVersionMarker(c, version, mode) ==
    LET t == TrimSpace(version) IN
    [ok |-> mode = "ok",
     cur |-> Written(c, CurText(t), CurText(""),
                     CurText(IF t = "" THEN "" ELSE Torn), mode)]

(***************************************************************************)
(* Environment manager.  The text of a shell configuration file is held    *)
(* as the sequence of its lines, that is strings.Split(text, "\n"): the    *)
(* empty text is <<"">> and a text ending in a newline ends in "".         *)
(***************************************************************************)
blockStart == "# >>> govm initialize >>>"
blockEnd == "# <<< govm initialize <<<"

RECURSIVE PathString(_)
PathString(p) == IF p = <<>> THEN "" ELSE "/" \o Head(p) \o PathString(Tail(p))

GorootLine(goRoot) == "export GOROOT=\"" \o PathString(goRoot) \o "\""

\* buildConfigBlock, as lines.
buildConfigBlock(goRoot) ==
    << blockStart,
       GorootLine(goRoot),
       "export GOPATH=\"${GOPATH:-$HOME/go}\"",
       "export PATH=\"$GOROOT/bin:$PATH\"",
       blockEnd >>

\* strings.TrimSpace of a line.
TrimLine(line) ==
    IF line \in {"", " ", "  "} THEN ""
    ELSE IF line = Padded(blockStart) THEN blockStart
    ELSE IF line = Padded(blockEnd) THEN blockEnd
    ELSE line

\* The loop of removeExistingBlock: the lines written to the builder.
RECURSIVE KeptLines(_, _, _)
KeptLines(lines, skipping, acc) ==
    IF lines = <<>> THEN acc
    ELSE LET line == Head(lines) IN
         IF TrimLine(line) = blockStart THEN KeptLines(Tail(lines), TRUE, acc)
         ELSE IF TrimLine(line) = blockEnd THEN KeptLines(Tail(lines), FALSE, acc)
         ELSE IF skipping THEN KeptLines(Tail(lines), skipping, acc)
         ELSE IF line = "" /\ acc = <<>> THEN KeptLines(Tail(lines), skipping, acc)
         ELSE KeptLines(Tail(lines), skipping, Append(acc, line))

RECURSIVE DropTrailingEmpty(_)
DropTrailingEmpty(lines) ==
    IF lines # <<>> /\ lines[Len(lines)] = ""
    THEN DropTrailingEmpty(Front(lines))
    ELSE lines

\* A removeExistingBlock that leaves the managed blocks where they are.
removeExistingBlockKeep(lines) == DropTrailingEmpty(lines)

\* removeExistingBlock: the builder never starts with an empty line, so the
\* final Trim of newlines only drops the trailing empty lines.  <<>> is the
\* empty text here.
removeExistingBlock(lines) == DropTrailingEmpty(KeptLines(lines, FALSE, <<>>))

\* mergeConfig(existing, block).
mergeConfig(existing, block) ==
    LET cleaned == removeExistingBlock(existing) IN
    IF \A i \in 1..Len(cleaned) : TrimLine(cleaned[i]) = ""
    THEN block \o <<"">>
    ELSE cleaned \o <<"">> \o block \o <<"">>

\* DetectShell: the base name of $SHELL, "" when it is not supported.
\* $SHELL is given as the components of its path; <<>> is the unset variable.
DetectShell(shellEnv) ==
    LET shell == IF shellEnv = <<>> THEN "bash" ELSE shellEnv[Len(shellEnv)] IN
    IF shell \in {"bash", "zsh"} THEN shell ELSE ""

AbsentRc == [st |-> "absent", lines |-> <<"">>]
RcText(lines) == [st |-> "ok", lines |-> lines]

\* configFileForShell.
configFileForShell(rc, shellType) ==
    IF shellType = "bash"
    THEN IF rc[".bashrc"].st # "absent" THEN ".bashrc" ELSE ".bash_profile"
    ELSE ".zshrc"

\* UpdateShellConfig: [ok, rc].  An interrupted write leaves the text up to
\* and including the GOROOT line of the new block.
UpdateShellConfig(rc, shellType, goRoot, mode) ==
    IF goRoot = <<>> THEN [ok |-> FALSE, rc |-> rc]
    ELSE LET name == configFileForShell(rc, shellType)
             existing == IF rc[name].st = "absent" THEN <<"">> ELSE rc[name].lines
             merged == mergeConfig(existing, buildConfigBlock(goRoot))
             torn == SubSeq(merged, 1, Len(merged) - 4)
         IN  [ok |-> mode = "ok",
              rc |-> [rc EXCEPT ![name] =
                        Written(rc[name], RcText(merged), RcText(<<"">>),
                                RcText(torn), mode)]]

\* The install paths named by the managed blocks of a configuration file.
BlockRoots(c) ==
    IF c.st = "absent" THEN {}
    ELSE {p \in {GetInstallPath(n) : n \in Numbers} :
            \E i \in 1..Len(c.lines) : c.lines[i] = GorootLine(p)}

(***************************************************************************)
(* A call in progress: the files as the call has left them so far, ret     *)
(* ("run" while it goes on, then "ok", "err" or "crash"), at (the step at  *)
(* which it ended), the number of HTTP requests made, the steps taken,     *)
(* each with its outcome, and out (the collection the call returns).       *)
(***************************************************************************)
Begin(f, m, c, rc) ==
    [fs |-> f, meta |-> m, cur |-> c, rc |-> rc,
     ret |-> "run", at |-> "", net |-> 0, steps |-> <<>>, out |-> <<>>]

Step(name, ok) == [name |-> name, ok |-> ok]

\* The call goes through step `at`, which ends in `mode`.
Did(s, at, mode) ==
    [s EXCEPT !.ret = RetOf(mode),
              !.at = IF mode = "ok" THEN s.at ELSE at,
              !.steps = Append(s.steps, Step(at, mode = "ok"))]

\* The call returns an error at step `at`.
Fail(s, at) == [s EXCEPT !.ret = "err", !.at = at]

\* The call returns success unless it has ended already.
Return(s) == IF s.ret = "run" THEN [s EXCEPT !.ret = "ok"] ELSE s

\* ensureRoot of the store.
ensureRoot(s) == [s EXCEPT !.fs = MkdirAll(s.fs, RootDir).fs]

(***************************************************************************)
(* Downloader.                                                             *)
(***************************************************************************)
\* hex.EncodeToString of the SHA-256 digest of the data: lower-case
\* hexadecimal digits, another text for every content of the model.
Sha256Hex(data) ==
    CASE data = "good" -> <<"a", "1">>
      [] data = "link" -> <<"b", "2">>
      [] data = "traversal" -> <<"a", "2">>
      [] data = "invalid" -> <<"b", "1">>
      [] data = "renamed" -> <<"1", "a">>
      [] data = "dirbin" -> <<"1", "b">>
      [] OTHER -> <<"2", "2">>

\* A verification that tells the cases of the digits apart.
verifyChecksumExact(data, expected) == expected # <<>> /\ Sha256Hex(data) = expected

\* verifyChecksum: TRUE when the file's digest is accepted.
verifyChecksum(data, expected) ==
    expected # <<>> /\ EqualFold(Sha256Hex(data), expected)

FinalPath(version) == DownloadsDir \o <<version.FileName>>
DownloadTemp == DownloadsDir \o <<DownloadTempName>>
DownloadStale == DownloadsDir \o <<"download-stale">>

\* Downloader.Download(version), the server answering with `payload`; the
\* archive is at FinalPath(version) when the call goes on.  The temporary
\* file is removed when Download returns; a process that died leaves it
\* behind, under a name no later call picks.
Download(s0, version, payload, ft) ==
    LET s1 == [s0 EXCEPT !.fs = MkdirAll(s0.fs, DownloadsDir).fs,
                         !.net = s0.net + 1]
        http == ModeAt(ft, "http", 0)
        copy == ModeAt(ft, "copy", 0)
        fin == ModeAt(ft, "finalize", 0)
        withTemp == Put(s1.fs, DownloadTemp, FileNode(payload))
        cleared == RemoveAll(withTemp, FinalPath(version))
        s2 == Did(s1, "download", "ok")
    IN  IF http # "ok" THEN Did(s1, "download", http)
        ELSE IF IsCrash(copy)
        THEN Did([s1 EXCEPT !.fs = Put(s1.fs, DownloadStale, FileNode("torn"))],
                 "download", copy)
        ELSE IF copy # "ok" THEN Did(s1, "download", copy)
        ELSE IF ~verifyChecksum(payload, version.Checksum)
        THEN Did(s2, "verify", "err")
        ELSE IF fin # "ok"
        THEN Fail([Did(s2, "verify", "ok") EXCEPT !.fs = RemoveAll(cleared, DownloadTemp)],
                  "finalize")
        ELSE [Did(s2, "verify", "ok") EXCEPT
                 !.fs = RenameTree(cleared, DownloadTemp, FinalPath(version))]

(***************************************************************************)
(* Installer.                                                              *)
(***************************************************************************)
TempDir == VersionsDir \o <<TempName>>
StaleDir == VersionsDir \o <<"install-stale">>
DestDir == TempDir \o <<"root">>

\* An isVersionInstalled that finds no version installed.
isVersionInstalledNever(f, m, number) == [err |-> FALSE, installed |-> FALSE]

\* isVersionInstalled: [err, installed].
isVersionInstalled(f, m, number) ==
    LET r == LoadMetadata(m)
        i == IndexOf(r.versions, number)
    IN  IF r.err # "" THEN [err |-> TRUE, installed |-> FALSE]
        ELSE IF i = 0 THEN [err |-> FALSE, installed |-> FALSE]
        ELSE IF r.versions[i].InstallPath = <<>> THEN [err |-> FALSE, installed |-> FALSE]
        ELSE [err |-> FALSE, installed |-> Stat(f, r.versions[i].InstallPath) = "dir"]

\* An extraction whose error Install does not look at.
ExtractStepUnchecked(s, version, ft) ==
    IF s.ret # "run" THEN s
    ELSE LET made == MkdirAll(s.fs, DestDir)
             x == extractTarGz(made.fs, FinalPath(version), DestDir,
                               IF ft.at = "extract" THEN ft.k
                               ELSE Len(ArchiveOf(s.fs[FinalPath(version)].data).entries))
         IN  [s EXCEPT !.fs = x.fs,
                       !.steps = Append(s.steps, Step("extract", x.ok))]

\* Install, lines 152-165: the temporary directory and the extraction.
ExtractStep(s, version, ft) ==
    IF s.ret # "run" THEN s
    ELSE LET made == MkdirAll(s.fs, DestDir)
             a == ArchiveOf(s.fs[FinalPath(version)].data)
             stop == IF ft.at = "extract" THEN ft.k ELSE Len(a.entries)
             x == extractTarGz(made.fs, FinalPath(version), DestDir, stop)
         IN  IF ModeAt(ft, "mktemp", 0) # "ok" THEN Fail(s, "mktemp")
             ELSE Did([s EXCEPT !.fs = x.fs], "extract",
                      IF x.ok THEN "ok"
                      ELSE IF ft.at = "extract" THEN ft.mode ELSE "err")

\* Install, lines 167-173: the previous install is removed and the extracted
\* directory is moved into its place.
MoveStep(s, installPath, ft) ==
    IF s.ret # "run" THEN s
    ELSE LET rm == ModeAt(ft, "rmprev", 0)
             mv == ModeAt(ft, "move", 0)
             removed == RemoveAll(s.fs, installPath)
         IN  IF rm # "ok" THEN Did(s, "move", rm)
             ELSE IF mv # "ok" THEN Did([s EXCEPT !.fs = removed], "move", mv)
             ELSE Did([s EXCEPT !.fs = RenameTree(removed, DestDir, installPath)],
                      "move", "ok")

\* Install, lines 175-180: the record is completed and saved.
SaveStep(s, version, installPath, now, ft) ==
    IF s.ret # "run" THEN s
    ELSE LET mode == ModeAt(ft, "save", 0)
             r == SaveMetadata(s.meta,
                               [version EXCEPT !.InstallPath = installPath,
                                               !.InstalledAt = now],
                               mode)
         IN  Did([ensureRoot(s) EXCEPT !.meta = r.meta], "save",
                 IF r.ok THEN "ok" ELSE IF mode = "ok" THEN "err" ELSE mode)

\* The deferred os.RemoveAll(tempDir) of Install; a process that died leaves
\* the directory behind, under a name no later call picks.
CleanupStep(s) ==
    IF s.ret = "crash"
    THEN IF Exists(s.fs, TempDir)
         THEN [s EXCEPT !.fs = RenameTree(RemoveAll(s.fs, StaleDir), TempDir, StaleDir)]
         ELSE s
    ELSE [s EXCEPT !.fs = RemoveAll(s.fs, TempDir)]

\* Installer.Install(version).
InstallRun(s0, version, payload, now, ft) ==
    LET inst == isVersionInstalled(s0.fs, s0.meta, version.Number)
        installPath == GetInstallPath(version.Number)
        s1 == [s0 EXCEPT !.fs = MkdirAll(s0.fs, Front(installPath)).fs]
        s2 == Download(s1, version, payload, ft)
        s3 == ExtractStep(s2, version, ft)
        s4 == MoveStep(s3, installPath, ft)
        s5 == SaveStep(s4, version, installPath, now, ft)
    IN  IF inst.err THEN Fail(s0, "load")
        ELSE IF inst.installed THEN Return(s0)
        ELSE Return(CleanupStep(s5))

(***************************************************************************)
(* Switcher.                                                               *)
(***************************************************************************)
\* ensureExecutable: TRUE when <goRoot>/bin/go exists and is no directory.
\* An ensureExecutable that accepts every install path.
ensureExecutableAny(f, goRoot) == TRUE

\* Switcher.ensureExecutable: TRUE when bin/go is accepted.
ensureExecutable(f, goRoot) == Stat(f, goRoot \o <<"bin", "go">>) = "file"

\* Manager.ConfigureEnvironment(goRoot).
ConfigureEnvironment(s, goRoot, shellEnv, ft) ==
    IF s.ret # "run" THEN s
    ELSE LET shell == DetectShell(shellEnv)
             mode == ModeAt(ft, "rc", 0)
             r == UpdateShellConfig(s.rc, shell, goRoot, mode)
         IN  IF shell = "" THEN Fail(s, "shell")
             ELSE Did([s EXCEPT !.rc = r.rc], "rc",
                      IF r.ok THEN "ok" ELSE IF mode = "ok" THEN "err" ELSE mode)

\* Manager.SetCurrentVersion(version).
SetCurrentVersion(s, version, ft) ==
    IF s.ret # "run" THEN s
    ELSE LET mode == ModeAt(ft, "marker", 0)
             r == SetCurrentVersionMarker(s.cur, TrimSpace(version), mode)
         IN  Did([ensureRoot(s) EXCEPT !.cur = r.cur], "marker", mode)

\* A loop that saves no record.
FlagLoopNone(s, versions, i, target, ft) == s

\* UseVersion, lines 67-72: the loop over the records loaded at the start.
RECURSIVE FlagLoop(_, _, _, _, _)
FlagLoop(s, versions, i, target, ft) ==
    IF s.ret # "run" \/ i > Len(versions) THEN s
    ELSE LET mode == ModeAt(ft, "flag", i)
             r == SaveMetadata(s.meta,
                               [versions[i] EXCEPT !.IsCurrent = (versions[i].Number = target)],
                               mode)
             t == Did([ensureRoot(s) EXCEPT !.meta = r.meta], "flag",
                      IF r.ok THEN "ok" ELSE IF mode = "ok" THEN "err" ELSE mode)
         IN  FlagLoop(t, versions, i + 1, target, ft)

\* Switcher.UseVersion(version).
UseVersionRun(s0, version, shellEnv, ft) ==
    LET number == TrimSpace(version)
        r == LoadMetadata(s0.meta)
        i == IndexOf(r.versions, number)
        target == r.versions[i]
        s1 == ConfigureEnvironment(s0, target.InstallPath, shellEnv, ft)
        s2 == SetCurrentVersion(s1, target.Number, ft)
        s3 == FlagLoop(s2, r.versions, 1, target.Number, ft)
    IN  IF number = "" THEN Fail(s0, "argument")
        ELSE IF r.err # "" THEN Fail(s0, "load")
        ELSE IF i = 0 \/ target.InstallPath = <<>> THEN Fail(s0, "lookup")
        ELSE IF ~ensureExecutable(s0.fs, target.InstallPath) THEN Fail(s0, "executable")
        ELSE Return(s3)

(***************************************************************************)
(* Uninstaller.                                                            *)
(***************************************************************************)
\* Uninstall, lines 57-61.
RemoveDirStep(s, target, ft) ==
    LET mode == ModeAt(ft, "rmdir", 0) IN
    IF target.InstallPath = <<>> THEN s
    ELSE Did(IF mode = "ok" THEN [s EXCEPT !.fs = RemoveAll(s.fs, target.InstallPath)]
             ELSE s,
             "rmdir", mode)

\* A step that deletes no record.
DeleteStepNone(s, target, ft) == s

\* Uninstall, lines 63-65.
DeleteStep(s, target, ft) ==
    IF s.ret # "run" THEN s
    ELSE LET mode == ModeAt(ft, "delete", 0)
             r == DeleteMetadata(s.meta, target.Number, mode)
         IN  Did([s EXCEPT !.meta = r.meta], "delete",
                 IF r.ok THEN "ok" ELSE IF mode = "ok" THEN "err" ELSE mode)

\* Uninstall, lines 67-71.
ClearMarkerStep(s, target, current, ft) ==
    IF s.ret # "run" \/ current # target.Number THEN s
    ELSE LET mode == ModeAt(ft, "marker", 0)
             r == SetCurrentVersionMarker(s.cur, "", mode)
         IN  Did([ensureRoot(s) EXCEPT !.cur = r.cur], "marker", mode)

\* Uninstall, lines 73-78: the reload of the collection that is returned.
ReloadStep(s) ==
    IF s.ret # "run" THEN s
    ELSE IF LoadMetadata(s.meta).err # "" THEN Fail(s, "reload")
    ELSE [s EXCEPT !.out = LoadMetadata(s.meta).versions]

\* An active version that no call is kept from removing.
ProtectedNever(current, target, force) == FALSE

\* Uninstall, lines 53-55: the active version is removed only with force.
Protected(current, target, force) == current = target.Number /\ ~force

\* Uninstaller.Uninstall(version, force).
UninstallRun(s0, version, force, ft) ==
    LET number == TrimSpace(version)
        r == LoadMetadata(s0.meta)
        i == IndexOf(r.versions, number)
        target == r.versions[i]
        current == GetCurrentVersionMarker(s0.cur)
        s1 == RemoveDirStep(s0, target, ft)
        s2 == DeleteStep(s1, target, ft)
        s3 == ClearMarkerStep(s2, target, current, ft)
    IN  IF number = "" THEN Fail(s0, "argument")
        ELSE IF r.err # "" THEN Fail(s0, "load")
        ELSE IF i = 0 THEN Fail(s0, "lookup")
        ELSE IF Protected(current, target, force) THEN Fail(s0, "active")
        ELSE Return(ReloadStep(s3))

\* A release of the catalog: the record FetchVersions yields for it.
CatalogVersion(number, archive) ==
    [Number |-> number,
     FullName |-> "go" \o number,
     DownloadURL |-> "https://go.dev/dl/go" \o number \o ".linux-amd64.tar.gz",
     FileName |-> "go" \o number \o ".linux-amd64.tar.gz",
     Checksum |-> Sha256Hex(archive),
     OS |-> "linux",
     Arch |-> "amd64",
     InstallPath |-> <<>>,
     IsCurrent |-> FALSE,
     InstalledAt |-> 0]

(***************************************************************************)
(* Lister.                                                                 *)
(***************************************************************************)
\* strings.Split(number, ".") with parseInt of every part, for the numbers
\* of the model.
NumberParts(number) ==
    CASE number = "1.20" -> <<1, 20>>
      [] number = "1.21" -> <<1, 21>>
      [] number = "1.22" -> <<1, 22>>
      [] number = "1.23" -> <<1, 23>>
      [] OTHER -> <<0>>

\* The loop of compareLocalVersions from part i on.
RECURSIVE ComparePartsFrom(_, _, _)
ComparePartsFrom(ap, bp, i) ==
    IF i > Len(ap) /\ i > Len(bp) THEN 0
    ELSE LET ai == IF i <= Len(ap) THEN ap[i] ELSE 0
             bi == IF i <= Len(bp) THEN bp[i] ELSE 0
         IN  IF ai > bi THEN 1
             ELSE IF ai < bi THEN 2
             ELSE ComparePartsFrom(ap, bp, i + 1)

\* compareLocalVersions: 1 when a is the newer, 2 when b is (-1 in the
\* code), 0 when they are equal.
compareLocalVersions(a, b) == ComparePartsFrom(NumberParts(a), NumberParts(b), 1)

\* sort.SliceStable, newest first: v is put behind the records that are not
\* older than it.
RECURSIVE InsertSorted(_, _)
InsertSorted(sorted, v) ==
    IF sorted = <<>> THEN <<v>>
    ELSE IF compareLocalVersions(v.Number, Head(sorted).Number) = 1
         THEN <<v>> \o sorted
         ELSE <<Head(sorted)>> \o InsertSorted(Tail(sorted), v)

RECURSIVE SortNewestFirst(_, _)
SortNewestFirst(versions, sorted) ==
    IF versions = <<>> THEN sorted
    ELSE SortNewestFirst(Tail(versions), InsertSorted(sorted, Head(versions)))

\* Lister.LocalVersions: [err, versions].
LocalVersions(m, c) ==
    LET r == LoadMetadata(m)
        current == GetCurrentVersionMarker(c)
        flagged == [i \in 1..Len(r.versions) |->
                      [r.versions[i] EXCEPT !.IsCurrent = (r.versions[i].Number = current)]]
    IN  IF r.err # "" THEN [err |-> TRUE, versions |-> <<>>]
        ELSE [err |-> FALSE, versions |-> SortNewestFirst(flagged, <<>>)]

\* validateExecutable: TRUE when <goRoot>/bin/go exists and is no directory.
validateExecutable(f, goRoot) ==
    goRoot # <<>> /\ Stat(f, goRoot \o <<"bin", "go">>) = "file"

\* Lister.CurrentVersion: [err, found, version]; found is FALSE for the nil
\* result.
CurrentVersion(f, m, c) ==
    LET r == LocalVersions(m, c)
        none == [err |-> FALSE, found |-> FALSE, version |-> CatalogVersion("", "")]
        flagged == {i \in 1..Len(r.versions) : r.versions[i].IsCurrent}
        first == CHOOSE i \in flagged : \A j \in flagged : i <= j
    IN  IF r.err THEN [none EXCEPT !.err = TRUE]
        ELSE IF flagged = {} THEN none
        ELSE IF ~validateExecutable(f, r.versions[first].InstallPath)
             THEN [none EXCEPT !.err = TRUE]
             ELSE [err |-> FALSE, found |-> TRUE, version |-> r.versions[first]]

(***************************************************************************)
(* Remote client.  The body of the remote source's answer is [json,        *)
(* releases]; a release file is a record of the version it belongs to and  *)
(* of its filename, os, arch, sha256 and kind.                             *)
(***************************************************************************)
downloadBasePath == "https://go.dev/dl/"

supportedArch == {"amd64", "arm64", "386"}

\* Version names are sequences of characters.
V120 == <<"g", "o", "1", ".", "2", "0">>
V121 == <<"g", "o", "1", ".", "2", "1">>
V122 == <<"g", "o", "1", ".", "2", "2">>

\* strings.TrimPrefix(v, "go").
TrimGo(v) ==
    IF Len(v) >= 2 /\ v[1] = "g" /\ v[2] = "o" THEN SubSeq(v, 3, Len(v)) ELSE v

ReleaseFile(version, os, arch, kind) ==
    [version |-> version, os |-> os, arch |-> arch, kind |-> kind,
     filename |-> <<version, os, arch, kind>>,
     sha256 |-> <<"sha256", version, os, arch>>]

ReleasesA ==
    << ReleaseFile(V120, "linux", "amd64", "archive"),
       ReleaseFile(V121, "linux", "arm64", "archive"),
       ReleaseFile(V121, "darwin", "amd64", "archive"),
       ReleaseFile(V121, "linux", "amd64", "archive") >>

ReleasesB ==
    << ReleaseFile(V122, "linux", "amd64", "archive"),
       ReleaseFile(V122, "linux", "riscv64", "archive"),
       ReleaseFile(V122, "linux", "amd64", "installer") >>

ReleasesNone == << ReleaseFile(V122, "windows", "amd64", "archive") >>

SourceResponses ==
    { [err |-> TRUE, status |-> 0, body |-> [json |-> FALSE, releases |-> <<>>]],
      [err |-> FALSE, status |-> 503, body |-> [json |-> TRUE, releases |-> ReleasesA]],
      [err |-> FALSE, status |-> 200, body |-> [json |-> FALSE, releases |-> <<>>]] }
    \cup { [err |-> FALSE, status |-> 200, body |-> [json |-> TRUE, releases |-> r]] :
              r \in {ReleasesA, ReleasesB, ReleasesNone} }

\* A filter that looks at the OS only.
shouldIncludeLinux(f) == f.os = "linux"

\* shouldInclude.
shouldInclude(f) == f.os = "linux" /\ f.kind = "archive" /\ f.arch \in supportedArch

IsDigit(c) == c \in {"0", "1", "2", "3", "4", "5", "6", "7", "8", "9"}

\* The number of leading characters of t that are digits (digits = TRUE) or
\* that are not (digits = FALSE): the idx loops of parseNumericPrefix and
\* setPrerelease.
RECURSIVE Leading(_, _)
Leading(t, digits) ==
    IF t = <<>> \/ IsDigit(Head(t)) # digits THEN 0
    ELSE 1 + Leading(Tail(t), digits)

RECURSIVE DecimalValue(_, _)
DecimalValue(t, acc) ==
    IF t = <<>> THEN acc
    ELSE DecimalValue(Tail(t),
            10 * acc + (CHOOSE d \in 0..9 : ToString(d) = Head(t)))

\* parseInt: strconv.Atoi, 0 on an error (names hold no sign characters).
parseInt(value) ==
    IF value # <<>> /\ Leading(value, TRUE) = Len(value)
    THEN DecimalValue(value, 0) ELSE 0

\* strings.Split(t, "."), cur being the part read so far.
RECURSIVE SplitDots(_, _)
SplitDots(t, cur) ==
    IF t = <<>> THEN <<cur>>
    ELSE IF Head(t) = "." THEN <<cur>> \o SplitDots(Tail(t), <<>>)
    ELSE SplitDots(Tail(t), Append(cur, Head(t)))

\* parseNumericPrefix: [value, rest].
parseNumericPrefix(str) ==
    LET idx == Leading(str, TRUE) IN
    IF idx = 0 THEN [value |-> 0, rest |-> str]
    ELSE [value |-> parseInt(SubSeq(str, 1, idx)),
          rest |-> SubSeq(str, idx + 1, Len(str))]

\* setPrerelease.
setPrerelease(parts, suffix) ==
    LET idx == Leading(suffix, FALSE) IN
    [parts EXCEPT !.prerelease = SubSeq(suffix, 1, idx),
                  !.prereleaseNum = IF idx < Len(suffix)
                                    THEN parseInt(SubSeq(suffix, idx + 1, Len(suffix)))
                                    ELSE 0]

\* normalizeVersion.
normalizeVersion(v) ==
    LET parts == SplitDots(TrimGo(v), <<>>)
        r0 == [major |-> parseInt(parts[1]), minor |-> 0, patch |-> 0,
               prerelease |-> <<>>, prereleaseNum |-> 0]
        m == parseNumericPrefix(parts[2])
        r1 == IF Len(parts) > 1 THEN [r0 EXCEPT !.minor = m.value] ELSE r0
        q == parseNumericPrefix(parts[3])
    IN  IF Len(parts) > 1 /\ m.rest # <<>> THEN setPrerelease(r1, m.rest)
        ELSE IF Len(parts) > 2
        THEN IF q.rest # <<>> THEN setPrerelease([r1 EXCEPT !.patch = q.value], q.rest)
             ELSE [r1 EXCEPT !.patch = q.value]
        ELSE r1

\* cmpInt, with 2 for the -1 of the code.
cmpInt(a, b) == IF a > b THEN 1 ELSE IF a < b THEN 2 ELSE 0

prereleaseRank(label) ==
    CASE label = <<>> -> 3
      [] label = <<"r", "c">> -> 2
      [] label = <<"b", "e", "t", "a">> -> 1
      [] OTHER -> 0

comparePrerelease(a, b) ==
    IF a.prerelease = b.prerelease THEN cmpInt(a.prereleaseNum, b.prereleaseNum)
    ELSE cmpInt(prereleaseRank(a.prerelease), prereleaseRank(b.prerelease))

compareVersionStrings(a, b) ==
    LET pa == normalizeVersion(a)
        pb == normalizeVersion(b)
    IN  IF pa.major # pb.major THEN cmpInt(pa.major, pb.major)
        ELSE IF pa.minor # pb.minor THEN cmpInt(pa.minor, pb.minor)
        ELSE IF pa.patch # pb.patch THEN cmpInt(pa.patch, pb.patch)
        ELSE comparePrerelease(pa, pb)

\* The order of Go's strings on the architectures.
ArchRank(arch) == CASE arch = "386" -> 1 [] arch = "amd64" -> 2 [] arch = "arm64" -> 3 [] OTHER -> 4

\* A less function that puts the lower version first.
RemoteLessAscending(v, w) ==
    LET cmp == compareVersionStrings(v.FullName, w.FullName) IN
    IF cmp = 0 THEN ArchRank(v.Arch) < ArchRank(w.Arch) ELSE cmp = 2

\* The less function of parseVersions' sort.
RemoteLess(v, w) ==
    LET cmp == compareVersionStrings(v.FullName, w.FullName) IN
    IF cmp = 0 THEN ArchRank(v.Arch) < ArchRank(w.Arch) ELSE cmp = 1

\* The insertion of sort.SliceStable (lists of up to 20 elements are sorted
\* by insertion): v moves to the left while it is less than its neighbour.
RECURSIVE InsertRemote(_, _)
InsertRemote(sorted, v) ==
    IF sorted = <<>> \/ ~RemoteLess(v, sorted[Len(sorted)]) THEN Append(sorted, v)
    ELSE Append(InsertRemote(Front(sorted), v), sorted[Len(sorted)])

RECURSIVE SortRemote(_, _)
SortRemote(versions, sorted) ==
    IF versions = <<>> THEN sorted
    ELSE SortRemote(Tail(versions), InsertRemote(sorted, Head(versions)))

\* The record parseVersions builds for a release file.
RemoteVersion(f) ==
    [Number |-> TrimGo(f.version), FullName |-> f.version,
     DownloadURL |-> <<downloadBasePath, f.filename>>, FileName |-> f.filename,
     Checksum |-> f.sha256, OS |-> f.os, Arch |-> f.arch,
     InstallPath |-> <<>>, IsCurrent |-> FALSE, InstalledAt |-> 0]

RECURSIVE IncludedFrom(_, _)
IncludedFrom(releases, i) ==
    IF i > Len(releases) THEN <<>>
    ELSE IF shouldInclude(releases[i])
         THEN <<RemoteVersion(releases[i])>> \o IncludedFrom(releases, i + 1)
         ELSE IncludedFrom(releases, i + 1)

\* parseVersions: [ok, versions].
parseVersions(body) ==
    IF ~body.json THEN [ok |-> FALSE, versions |-> <<>>]
    ELSE [ok |-> TRUE, versions |-> SortRemote(IncludedFrom(body.releases, 1), <<>>)]

\* A getCached that hands out the cached slice itself.
getCachedShared(c, at, now) ==
    IF Len(c) = 0 THEN [ok |-> FALSE, list |-> <<>>, shared |-> FALSE, cached |-> c]
    ELSE IF CacheTTL > 0 /\ now - at > CacheTTL
    THEN [ok |-> FALSE, list |-> <<>>, shared |-> FALSE, cached |-> <<>>]
    ELSE [ok |-> TRUE, list |-> c, shared |-> TRUE, cached |-> c]

\* getCached: [ok, list, shared, cached]; shared tells whether the list
\* handed out is the cached slice itself (it is a copy), cached is c.cached
\* afterwards.
getCached(c, at, now) ==
    IF Len(c) = 0 THEN [ok |-> FALSE, list |-> <<>>, shared |-> FALSE, cached |-> c]
    ELSE IF CacheTTL > 0 /\ now - at > CacheTTL
    THEN [ok |-> FALSE, list |-> <<>>, shared |-> FALSE, cached |-> <<>>]
    ELSE [ok |-> TRUE, list |-> c, shared |-> FALSE, cached |-> c]

NoList == [shared |-> FALSE, list |-> <<>>]

\* The call that made no request.
NoResponse == [err |-> FALSE, status |-> 0, body |-> [json |-> FALSE, releases |-> <<>>]]

\* A FetchVersions that gives up only when the transport fails.
FetchFailedTransport(resp, r) == resp.err

\* The error returns of FetchVersions after its request: r is what
\* parseVersions makes of the body.
FetchFailed(resp, r) == resp.err \/ resp.status # 200 \/ ~r.ok

\* NewClient.
InitClient ==
    /\ cached = <<>>
    /\ cachedAt = 0
    /\ clock = 0
    /\ held = NoList
    /\ fetched = [list |-> <<>>, at |-> 0, touched |-> FALSE]
    /\ nfetch = 0
    /\ lastFetch = [res |-> "none", list |-> <<>>, net |-> 0, resp |-> NoResponse]

\* Client.FetchVersions; setCache stores a copy of the list it is given.
FetchVersions ==
    /\ nfetch < MaxFetches
    /\ nfetch' = nfetch + 1
    /\ \E resp \in SourceResponses :
          LET g == getCached(cached, cachedAt, clock)
              r == parseVersions(resp.body)
          IN  IF g.ok
              THEN /\ held' = [shared |-> g.shared, list |-> g.list]
                   /\ lastFetch' = [res |-> "ok", list |-> g.list, net |-> 0,
                                    resp |-> NoResponse]
                   /\ cached' = g.cached
                   /\ UNCHANGED <<cachedAt, fetched, threadVars>>
              ELSE IF FetchFailed(resp, r)
              THEN /\ held' = NoList
                   /\ lastFetch' = [res |-> "err", list |-> <<>>, net |-> 1,
                                    resp |-> resp]
                   /\ cached' = g.cached
                   /\ UNCHANGED <<cachedAt, fetched, threadVars>>
              ELSE /\ held' = [shared |-> FALSE, list |-> r.versions]
                   /\ lastFetch' = [res |-> "ok", list |-> r.versions, net |-> 1,
                                    resp |-> resp]
                   /\ cached' = r.versions
                   /\ cachedAt' = clock
                   /\ fetched' = [list |-> r.versions, at |-> clock, touched |-> FALSE]
    /\ UNCHANGED <<clock, storeVars, detectorVars, pureVars, threadVars>>

\* The caller changes an element of the list it was handed.
ModifyReturned ==
    /\ held.list # <<>>
    /\ held.list[1].Checksum # <<"changed">>
    /\ held' = [held EXCEPT !.list[1].Checksum = <<"changed">>]
    /\ cached' = IF held.shared THEN held'.list ELSE cached
    /\ fetched' = [fetched EXCEPT !.touched = TRUE]
    /\ UNCHANGED <<cachedAt, clock, nfetch, lastFetch, storeVars, detectorVars, pureVars, threadVars>>

\* Time passes.
Tick ==
    /\ clock < MaxClock
    /\ clock' = clock + 1
    /\ UNCHANGED <<cached, cachedAt, held, fetched, nfetch, lastFetch, storeVars, detectorVars, pureVars, threadVars>>

(***************************************************************************)
(* Region detector.  A response of an endpoint is [err, status, body]: err *)
(* is a transport error; a body is [json, text], text being the whole body *)
(* of a plain answer and the value of "country_code" ("" when the key is   *)
(* missing) of a JSON object.                                              *)
(***************************************************************************)
defaultEndpoint == "https://ipinfo.io/country"
defaultFallback == "https://ipapi.co/json"

Callers == 1..NumCallers

Response(err, status, json, text) ==
    [err |-> err, status |-> status, body |-> [json |-> json, text |-> text]]

PlainTexts == {"cn\n", " us ", "", " \n"}

PrimaryResponses ==
    {Response(TRUE, 0, FALSE, ""), Response(FALSE, 500, FALSE, "cn\n")}
    \cup {Response(FALSE, 200, FALSE, t) : t \in PlainTexts}

FallbackResponses ==
    {Response(TRUE, 0, FALSE, ""), Response(FALSE, 404, TRUE, " us "),
     Response(FALSE, 200, FALSE, "<html>")}
    \cup {Response(FALSE, 200, TRUE, t) : t \in PlainTexts}

\* strings.ToUpper(strings.TrimSpace(text)), on the texts of the model.
UpperTrimmed(text) ==
    CASE text = "cn\n" -> "CN"
      [] text = " us " -> "US"
      [] text \in {"", " \n"} -> ""
      [] OTHER -> text

\* A parser that takes every text for a code.
parsePlainCountryAny(text) == [ok |-> TRUE, code |-> UpperTrimmed(text)]

\* parsePlainCountry: [ok, code].
parsePlainCountry(text) ==
    LET code == UpperTrimmed(text) IN
    IF code = "" THEN [ok |-> FALSE, code |-> ""] ELSE [ok |-> TRUE, code |-> code]

\* parseJSONCountry: [ok, code].
parseJSONCountry(body) ==
    IF ~body.json THEN [ok |-> FALSE, code |-> ""] ELSE parsePlainCountry(body.text)

\* fetchCountry, given the response of the endpoint: [ok, code].
fetchCountry(resp, parser) ==
    IF resp.err \/ resp.status # 200 THEN [ok |-> FALSE, code |-> ""]
    ELSE IF parser = "plain" THEN parsePlainCountry(resp.body.text)
    ELSE parseJSONCountry(resp.body)

Idle == [pc |-> "idle", code |-> "", reqs |-> 0, seen |-> {}, probes |-> <<>>]

\* NewDetector, with the fallback endpoint that its options leave.
InitDetector(fallbacks) ==
    /\ cache = ""
    /\ fallbackEndpoint \in fallbacks
    /\ calls = [p \in Callers |-> Idle]
    /\ ncalls = 0
    /\ returned = {}
    /\ lastCall = [caller |-> 0, res |-> "none", code |-> "", reqs |-> 0,
                   seen |-> {}, probes |-> <<>>]

\* The call of caller p returns.
ReturnCall(p, res, code) ==
    /\ calls' = [calls EXCEPT ![p] = Idle]
    /\ lastCall' = [caller |-> p, res |-> res, code |-> code, reqs |-> calls[p].reqs,
                    seen |-> calls[p].seen, probes |-> calls[p].probes]
    /\ returned' = IF res = "ok" THEN returned \cup {code} ELSE returned

\* Caller p enters CountryCode.
CallCountryCode(p) ==
    /\ calls[p].pc = "idle"
    /\ ncalls < MaxCalls
    /\ ncalls' = ncalls + 1
    /\ calls' = [calls EXCEPT ![p] = [Idle EXCEPT !.pc = "check", !.seen = returned]]
    /\ UNCHANGED <<cache, fallbackEndpoint, returned, lastCall, storeVars, clientVars, pureVars, threadVars>>

\* CountryCode, lines 98-104: the cache is read under the lock.
CheckCache(p) ==
    /\ calls[p].pc = "check"
    /\ IF cache # ""
       THEN ReturnCall(p, "ok", cache)
       ELSE /\ calls' = [calls EXCEPT ![p].pc = "primary"]
            /\ UNCHANGED <<returned, lastCall, threadVars>>
    /\ UNCHANGED <<cache, fallbackEndpoint, ncalls, storeVars, clientVars, pureVars, threadVars>>

\* lookup, lines 124-127 and 137: the probe of the primary endpoint.
ProbePrimary(p) ==
    /\ calls[p].pc = "primary"
    /\ \E resp \in PrimaryResponses :
          LET r == fetchCountry(resp, "plain")
              probed == [calls[p] EXCEPT
                            !.reqs = @ + 1,
                            !.probes = Append(@, [endpoint |-> defaultEndpoint, resp |-> resp])]
          IN  IF r.ok
              THEN /\ calls' = [calls EXCEPT ![p] = [probed EXCEPT !.pc = "store", !.code = r.code]]
                   /\ UNCHANGED <<returned, lastCall, threadVars>>
              ELSE IF fallbackEndpoint # ""
              THEN /\ calls' = [calls EXCEPT ![p] = [probed EXCEPT !.pc = "fallback"]]
                   /\ UNCHANGED <<returned, lastCall, threadVars>>
              ELSE /\ lastCall' = [caller |-> p, res |-> "err", code |-> "",
                                   reqs |-> probed.reqs, seen |-> probed.seen,
                                   probes |-> probed.probes]
                   /\ calls' = [calls EXCEPT ![p] = Idle]
                   /\ UNCHANGED returned
    /\ UNCHANGED <<cache, fallbackEndpoint, ncalls, storeVars, clientVars, pureVars, threadVars>>

\* lookup, lines 129-135: the probe of the fallback endpoint.
ProbeFallback(p) ==
    /\ calls[p].pc = "fallback"
    /\ \E resp \in FallbackResponses :
          LET r == fetchCountry(resp, "json")
              probed == [calls[p] EXCEPT
                            !.reqs = @ + 1,
                            !.probes = Append(@, [endpoint |-> fallbackEndpoint, resp |-> resp])]
          IN  IF r.ok
              THEN /\ calls' = [calls EXCEPT ![p] = [probed EXCEPT !.pc = "store", !.code = r.code]]
                   /\ UNCHANGED <<returned, lastCall, threadVars>>
              ELSE /\ lastCall' = [caller |-> p, res |-> "err", code |-> "",
                                   reqs |-> probed.reqs, seen |-> probed.seen,
                                   probes |-> probed.probes]
                   /\ calls' = [calls EXCEPT ![p] = Idle]
                   /\ UNCHANGED returned
    /\ UNCHANGED <<cache, fallbackEndpoint, ncalls, storeVars, clientVars, pureVars, threadVars>>

\* CountryCode, lines 111-116: the code is stored under the lock if the cache
\* is still empty, and the code of this call's own lookup is returned.
StoreCode(p) ==
    /\ calls[p].pc = "store"
    /\ cache' = IF cache = "" THEN calls[p].code ELSE cache
    /\ ReturnCall(p, "ok", calls[p].code)
    /\ UNCHANGED <<fallbackEndpoint, ncalls, storeVars, clientVars, pureVars, threadVars>>

\* A Detector with callers of CountryCode running side by side.
InitRegion ==
    /\ InitDetector({defaultFallback, ""})
    /\ InitClient
    /\ InitPure
    /\ InitThreads
    /\ fs = <<>>
    /\ metaFile = AbsentMeta
    /\ curFile = AbsentCur
    /\ rcFile = [n \in {".bashrc", ".bash_profile", ".zshrc"} |-> AbsentRc]
    /\ envShell = <<>>
    /\ last = [op |-> "none", arg |-> "", res |-> "ok", at |-> "", net |-> 0,
               steps |-> <<>>]
    /\ nfaults = 0

NextRegion ==
    \E p \in Callers :
        \/ CallCountryCode(p)
        \/ CheckCache(p)
        \/ ProbePrimary(p)
        \/ ProbeFallback(p)
        \/ StoreCode(p)

SpecRegion == InitRegion /\ [][NextRegion]_vars

(***************************************************************************)
(* Mirror selection and the wiring of main.  A country code is a sequence  *)
(* of characters.                                                          *)
(***************************************************************************)
GoDevMirror ==
    [APIBase |-> "https://go.dev/dl/?mode=json&include=all",
     DownloadBase |-> "https://go.dev/dl/"]

StudyGolangMirror ==
    [APIBase |-> "https://golang.google.cn/dl/?mode=json&include=all",
     DownloadBase |-> "https://studygolang.com/dl/golang/"]

\* SelectMirror.
SelectMirror(countryCode) ==
    IF EqualFold(TrimSpaces(countryCode), <<"C", "N">>) THEN StudyGolangMirror
    ELSE GoDevMirror

defaultBaseURL == "https://go.dev/dl/?mode=json"

\* NewClient without options.
NewClient == [baseURL |-> defaultBaseURL, downloadBase |-> downloadBasePath]

WithBaseURL(c, base) == IF base # "" THEN [c EXCEPT !.baseURL = base] ELSE c

\* The option main passes the download base of the mirror with: it
\* configures the download base of the client.
WithDownloadBase(c, base) == IF base # "" THEN [c EXCEPT !.downloadBase = base] ELSE c

(***************************************************************************)
(* The commands as actions.                                                *)
(***************************************************************************)
ShellEnvs == {<<"bin", "bash">>, <<"usr", "bin", "zsh">>, <<"usr", "bin", "fish">>, <<>>}
CoreShells == {<<"bin", "bash">>, <<"usr", "bin", "fish">>}
CoreArchives == {"good", "link"}

WriteFaults(at, k) == {Fault(at, mode, k) : mode \in WriteErrModes}
WriteCrashes(at, k) == {Fault(at, mode, k) : mode \in WriteCrashModes}

InstallErrFaults ==
    {NoFault}
    \cup {Fault(at, "err", 0) : at \in {"http", "copy", "finalize", "mktemp", "rmprev", "move"}}
    \cup {Fault("extract", "err", k) : k \in 0..2}
    \cup WriteFaults("save", 0)
InstallCrashFaults ==
    {Fault(at, "crash", 0) : at \in {"copy", "move"}}
    \cup {Fault("extract", "crash", k) : k \in 0..2}
    \cup WriteCrashes("save", 0)

UseErrFaults ==
    {NoFault} \cup WriteFaults("rc", 0) \cup WriteFaults("marker", 0)
    \cup UNION {WriteFaults("flag", k) : k \in 1..NumVersions}
UseCrashFaults ==
    WriteCrashes("rc", 0) \cup WriteCrashes("marker", 0)
    \cup UNION {WriteCrashes("flag", k) : k \in 1..NumVersions}

UninstallErrFaults ==
    {NoFault, Fault("rmdir", "err", 0)} \cup WriteFaults("delete", 0)
    \cup WriteFaults("marker", 0)
UninstallCrashFaults ==
    WriteCrashes("delete", 0) \cup WriteCrashes("marker", 0)

\* A call runs under fault ft when ft is no fault at all, or when the budget
\* of faults is not used up (Affordable) and ft changes the course of the
\* call (Struck).
Affordable(ft) == ft # NoFault => nfaults < MaxFaults

Struck(run, clean, ft) == ft = NoFault \/ run # clean

Finish(s, ft, op, arg) ==
    /\ fs' = s.fs
    /\ metaFile' = s.meta
    /\ curFile' = s.cur
    /\ rcFile' = s.rc
    /\ last' = [op |-> op, arg |-> arg, res |-> s.ret, at |-> s.at, net |-> s.net,
                steps |-> s.steps]
    /\ nfaults' = IF ft = NoFault THEN nfaults ELSE nfaults + 1
    /\ UNCHANGED <<envShell, detectorVars, clientVars, pureVars, threadVars>>

\* The end of a call whose runs with and without the fault are runs[ft] and
\* runs[NoFault].
Settle(runs, ft, op, arg) ==
    /\ Struck(runs[ft], runs[NoFault], ft)
    /\ Finish(runs[ft], ft, op, arg)

Install(faults, archives) ==
    \E number \in Numbers, archive \in archives, intact \in BOOLEAN,
       now \in Times, ft \in faults :
        LET begin == Begin(fs, metaFile, curFile, rcFile)
            version == CatalogVersion(number, archive)
            payload == IF intact THEN archive ELSE "corrupt"
            runs == [f \in {ft, NoFault} |->
                        InstallRun(begin, version, payload, now, f)]
        IN  /\ Affordable(ft)
            /\ Settle(runs, ft, "Install", number)

UseVersion(faults) ==
    \E version \in Numbers \cup {Padded(AllNumbers[1])}, ft \in faults :
        LET begin == Begin(fs, metaFile, curFile, rcFile)
            runs == [f \in {ft, NoFault} |->
                        UseVersionRun(begin, version, envShell, f)]
        IN  /\ Affordable(ft)
            /\ Settle(runs, ft, "UseVersion", TrimSpace(version))

Uninstall(faults) ==
    \E version \in Numbers, force \in BOOLEAN, ft \in faults :
        LET begin == Begin(fs, metaFile, curFile, rcFile)
            runs == [f \in {ft, NoFault} |-> UninstallRun(begin, version, force, f)]
        IN  /\ Affordable(ft)
            /\ Settle(runs, ft, "Uninstall", version)

RcNames == {".bashrc", ".bash_profile", ".zshrc"}

\* The empty store, in a session whose $SHELL is one of `shells`.
InitWith(shells) ==
    /\ fs = <<>>
    /\ metaFile = AbsentMeta
    /\ curFile = AbsentCur
    /\ rcFile = [n \in RcNames |-> IF n = ".bashrc" THEN RcText(<<"# user", "">>)
                                   ELSE AbsentRc]
    /\ envShell \in shells
    /\ last = [op |-> "none", arg |-> "", res |-> "ok", at |-> "", net |-> 0,
               steps |-> <<>>]
    /\ nfaults = 0
    /\ InitDetector({defaultFallback})
    /\ InitClient
    /\ InitPure

Init == InitWith(CoreShells) /\ InitThreads

\* The commands with I/O failures: every call returns.
Next ==
    \/ Install(InstallErrFaults, CoreArchives)
    \/ UseVersion(UseErrFaults)
    \/ Uninstall(UninstallErrFaults)

Spec == Init /\ [][Next]_vars

\* The commands with I/O failures and with the process dying part-way.
NextCrash ==
    \/ Install(InstallErrFaults \cup InstallCrashFaults, CoreArchives)
    \/ UseVersion(UseErrFaults \cup UseCrashFaults)
    \/ Uninstall(UninstallErrFaults \cup UninstallCrashFaults)

SpecCrash == Init /\ [][NextCrash]_vars

\* The commands without failures of the platform, over every archive and
\* every session.
InitAll == InitWith(ShellEnvs) /\ InitThreads

NextAll ==
    \/ Install({NoFault}, {"good", "traversal", "link", "invalid"})
    \/ UseVersion({NoFault})
    \/ Uninstall({NoFault})

SpecAll == InitAll /\ [][NextAll]_vars

\* No faults; the archive of a release under go/, under another name, and
\* with a directory in the place of bin/go.
NextTop ==
    \/ Install({NoFault}, {"good", "renamed", "dirbin"})
    \/ UseVersion({NoFault})
    \/ Uninstall({NoFault})

SpecTop == Init /\ [][NextTop]_vars

\* The commands without failures of the platform, on the archive of a
\* release under go/ and on one under another name, restricted to
\* the calls that return without an error.
InstallOk ==
    \E number \in Numbers, archive \in {"good", "renamed"}, now \in Times :
        LET run == InstallRun(Begin(fs, metaFile, curFile, rcFile),
                              CatalogVersion(number, archive), archive, now, NoFault)
        IN  /\ run.ret = "ok"
            /\ Finish(run, NoFault, "Install", number)

UseVersionOk ==
    \E version \in Numbers \cup {Padded(AllNumbers[1])} :
        LET run == UseVersionRun(Begin(fs, metaFile, curFile, rcFile), version,
                                 envShell, NoFault)
        IN  /\ run.ret = "ok"
            /\ Finish(run, NoFault, "UseVersion", TrimSpace(version))

UninstallOk ==
    \E version \in Numbers, force \in BOOLEAN :
        LET run == UninstallRun(Begin(fs, metaFile, curFile, rcFile), version,
                                force, NoFault)
        IN  /\ run.ret = "ok"
            /\ Finish(run, NoFault, "Uninstall", version)

NextOk == InstallOk \/ UseVersionOk \/ UninstallOk

SpecOk == Init /\ [][NextOk]_vars

\* Contents of a shell configuration file before govm first rewrites it: no
\* managed block, one block, several blocks (one with padded sentinel
\* lines), a start sentinel line without an end, an end without a start.
RcContents ==
    { <<"# plain", "">>,
      <<"", "# one", ""
      >> \o buildConfigBlock(GetInstallPath(AllNumbers[2])) \o <<"", "alias one", "">>,
      <<"# several">> \o buildConfigBlock(GetInstallPath(AllNumbers[1]))
         \o <<"export A=1", Padded(blockStart), GorootLine(GetInstallPath(AllNumbers[2])),
              Padded(blockEnd), "alias several", "">>,
      <<"# unbalanced", "", blockStart, GorootLine(GetInstallPath(AllNumbers[2])),
        "alias unbalanced", "">>,
      <<blockEnd, "# orphan end", "">> }

\* A session whose configuration files all hold one of these contents, or
\* do not exist.
InitRc ==
    /\ fs = <<>>
    /\ metaFile = AbsentMeta
    /\ curFile = AbsentCur
    /\ \/ rcFile = [n \in RcNames |-> AbsentRc]
       \/ \E lines \in RcContents : rcFile = [n \in RcNames |-> RcText(lines)]
    /\ envShell \in {<<"bin", "bash">>, <<"usr", "bin", "zsh">>}
    /\ last = [op |-> "none", arg |-> "", res |-> "ok", at |-> "", net |-> 0,
               steps |-> <<>>]
    /\ nfaults = 0
    /\ InitDetector({defaultFallback})
    /\ InitClient
    /\ InitPure
    /\ InitThreads

NextRc ==
    \/ Install({NoFault}, {"good"})
    \/ UseVersion({NoFault})
    \/ Uninstall({NoFault})

SpecRc == InitRc /\ [][NextRc]_vars

\* A Client whose caller fetches the catalog again and again.
Fresh ==
    /\ InitClient
    /\ InitDetector({defaultFallback})
    /\ fs = <<>>
    /\ metaFile = AbsentMeta
    /\ curFile = AbsentCur
    /\ rcFile = [n \in RcNames |-> AbsentRc]
    /\ envShell = <<>>
    /\ last = [op |-> "none", arg |-> "", res |-> "ok", at |-> "", net |-> 0,
               steps |-> <<>>]
    /\ nfaults = 0

InitRemote == Fresh /\ InitPure /\ InitThreads

NextRemote == FetchVersions \/ ModifyReturned \/ Tick

SpecRemote == InitRemote /\ [][NextRemote]_vars

\* The release files a catalog may list, and the catalogs of up to MaxFiles
\* of them.
ListedNames ==
    { <<"g", "o", "1", ".", "2", "1">> \o t :
        t \in { <<>>, <<".", "0">>, <<"r", "c", "1">>, <<"r", "c", "2">>,
                <<"b", "e", "t", "a", "1">>, <<"d", "e", "v", "1">>,
                <<"a", "l", "p", "h", "a", "2">> } }
    \cup { <<"g", "o", "1", ".", "2", "0", ".", "5">> }

ListedFiles ==
    { ReleaseFile(v, "linux", a, "archive") : v \in ListedNames, a \in {"amd64", "386"} }
    \cup { ReleaseFile(V121, "darwin", "amd64", "archive") }

Catalogs == UNION { [1..n -> ListedFiles] : n \in 0..MaxFiles }

InitParse ==
    /\ Fresh
    /\ given \in Catalogs
    /\ answer = NotCalled
    /\ InitThreads

\* parseVersions of the body that lists the files given.
ParseVersions ==
    /\ ~answer.done
    /\ answer' = Returned(parseVersions([json |-> TRUE, releases |-> given]).versions)
    /\ UNCHANGED <<given, storeVars, detectorVars, clientVars, threadVars>>

SpecParse == InitParse /\ [][ParseVersions]_vars

\* The version names compareVersionStrings is studied on.
VersionNames ==
    { p \o m \o <<".">> \o n \o t \o q :
        p \in { <<"g", "o">>, <<>> },
        m \in { <<"1">>, <<"2">> },
        n \in { <<"2", "0">>, <<"2", "1">> },
        t \in { <<>>, <<"r", "c", "1">>, <<"r", "c", "2">>, <<"b", "e", "t", "a", "1">>,
                <<"d", "e", "v", "1">>, <<"a", "l", "p", "h", "a", "2">> },
        q \in { <<>>, <<".", "0">>, <<".", "5">>, <<".", "5", "r", "c", "1">> } }

InitCompare ==
    /\ Fresh
    /\ given \in VersionNames \X VersionNames
    /\ answer = NotCalled
    /\ InitThreads

CompareVersionStrings ==
    /\ ~answer.done
    /\ answer' = Returned(compareVersionStrings(given[1], given[2]))
    /\ UNCHANGED <<given, storeVars, detectorVars, clientVars, threadVars>>

SpecCompare == InitCompare /\ [][CompareVersionStrings]_vars

\* The names the order of compareVersionStrings is studied on, three at a
\* time: releases and prereleases of go1.21 with the labels rc, beta, dev
\* and alpha, and a release of go1.20.
OrderNames ==
    { V121 \o t :
        t \in { <<>>, <<".", "0">>, <<"r", "c", "1">>, <<"r", "c", "2">>,
                <<"b", "e", "t", "a", "1">>, <<"d", "e", "v", "1">>,
                <<"d", "e", "v", "2">>, <<"a", "l", "p", "h", "a", "2">> } }
    \cup { V120 \o <<".", "5">> }

InitOrder ==
    /\ Fresh
    /\ given \in OrderNames \X OrderNames \X OrderNames
    /\ answer = NotCalled
    /\ InitThreads

\* compareVersionStrings on the pairs of the three names given.
CompareThree ==
    /\ ~answer.done
    /\ answer' = Returned([ab |-> compareVersionStrings(given[1], given[2]),
                           ba |-> compareVersionStrings(given[2], given[1]),
                           bc |-> compareVersionStrings(given[2], given[3]),
                           ac |-> compareVersionStrings(given[1], given[3])])
    /\ UNCHANGED <<given, storeVars, detectorVars, clientVars, threadVars>>

SpecOrder == InitOrder /\ [][CompareThree]_vars

\* The records a caller hands to SaveMetadata.
StoreRecords ==
    { [CatalogVersion(n, "good") EXCEPT !.InstallPath = p, !.IsCurrent = c,
                                        !.InstalledAt = t] :
        n \in Numbers, p \in {<<>>, GetInstallPath(AllNumbers[1])},
        c \in BOOLEAN, t \in 0..MaxTime }

StoreCall(op, arg, ok) ==
    [op |-> op, arg |-> arg, res |-> IF ok THEN "ok" ELSE "err", at |-> "",
     net |-> 0, steps |-> <<>>]

\* FileStorage.SaveMetadata(version).
SaveMetadataCall ==
    \E version \in StoreRecords :
        LET r == SaveMetadata(metaFile, version, "ok") IN
        /\ metaFile' = r.meta
        /\ fs' = MkdirAll(fs, RootDir).fs
        /\ given' = version
        /\ answer' = Returned(r.ok)
        /\ last' = StoreCall("SaveMetadata", version.Number, r.ok)
        /\ UNCHANGED <<curFile, rcFile, envShell, nfaults, detectorVars, clientVars, threadVars>>

\* FileStorage.DeleteMetadata(version).
DeleteMetadataCall ==
    \E number \in Numbers :
        LET r == DeleteMetadata(metaFile, number, "ok") IN
        /\ metaFile' = r.meta
        /\ given' = number
        /\ answer' = Returned(r.ok)
        /\ last' = StoreCall("DeleteMetadata", number, r.ok)
        /\ UNCHANGED <<fs, curFile, rcFile, envShell, nfaults, detectorVars, clientVars, threadVars>>

\* FileStorage.LoadMetadata().
LoadMetadataCall ==
    /\ given' = <<>>
    /\ answer' = Returned(LoadMetadata(metaFile))
    /\ last' = StoreCall("LoadMetadata", "", LoadMetadata(metaFile).err = "")
    /\ UNCHANGED <<fs, metaFile, curFile, rcFile, envShell, nfaults, detectorVars,
                   clientVars, threadVars>>

NextStore == SaveMetadataCall \/ DeleteMetadataCall \/ LoadMetadataCall

SpecStore == InitRemote /\ [][NextStore]_vars

(***************************************************************************)
(* Goroutines of one process that call one FileStorage.  A call takes      *)
(* s.mu, reads the file, rewrites it (os.WriteFile opens the file with     *)
(* O_TRUNC, then writes the data) and gives s.mu back as it returns.  A    *)
(* goroutine keeps the facts of its last call while it rests: what it was  *)
(* (op, arg), what it returned (ok, out), the calls of other goroutines    *)
(* that went on during it (met) and the collections that calls that had    *)
(* returned had left at some moment of it (window).                        *)
(***************************************************************************)
NumThreads == 2
Threads == 1..NumThreads

Resting ==
    [pc |-> "idle", op |-> "", arg |-> <<>>, versions |-> <<>>, ok |-> TRUE,
     out |-> <<>>, met |-> {}, window |-> {}]

\* A mutex that keeps nobody out.
LockedNever(m) == FALSE

\* sync.Mutex: Lock waits while a goroutine holds the mutex.
Locked(m) == m # 0

Going(t) == threads[t].pc # "idle"

StoreOps ==
    { <<"SaveMetadata", CatalogVersion(n, "good")>> : n \in Numbers }
    \cup { <<"DeleteMetadata", n>> : n \in Numbers }
    \cup { <<"LoadMetadata", <<>>>> }

ThreadIdle ==
    UNCHANGED <<curFile, rcFile, envShell, last, nfaults, detectorVars, clientVars,
                pureVars>>

\* Goroutine t calls SaveMetadata, DeleteMetadata or LoadMetadata.
CallStore(t) ==
    \E call \in StoreOps :
        /\ ~Going(t)
        /\ threads' =
             [u \in Threads |->
                IF u = t
                THEN [Resting EXCEPT !.pc = "lock", !.op = call[1], !.arg = call[2],
                                     !.met = {threads[w].op : w \in {x \in Threads : Going(x)}},
                                     !.window = {settled}]
                ELSE IF Going(u) THEN [threads[u] EXCEPT !.met = @ \cup {call[1]}]
                ELSE threads[u]]
        /\ UNCHANGED <<fs, metaFile, mu, settled>>
        /\ ThreadIdle

\* s.mu.Lock().
Lock(t) ==
    /\ threads[t].pc = "lock"
    /\ ~Locked(mu)
    /\ mu' = t
    /\ threads' = [threads EXCEPT ![t].pc = "read"]
    /\ UNCHANGED <<fs, metaFile, settled>>
    /\ ThreadIdle

\* ensureRoot (SaveMetadata), readMetadataLocked and what the call makes of
\* the records it read.
ReadFile(t) ==
    LET call == threads[t]
        r == readMetadataLocked(metaFile)
    IN  /\ call.pc = "read"
        /\ fs' = IF call.op = "SaveMetadata" THEN MkdirAll(fs, RootDir).fs ELSE fs
        /\ threads' =
             [threads EXCEPT ![t] =
                CASE r.err = "json" -> [call EXCEPT !.pc = "return", !.ok = FALSE]
                  [] call.op = "LoadMetadata" ->
                        [call EXCEPT !.pc = "return", !.out = r.versions]
                  [] call.op = "DeleteMetadata" /\ r.err = "notexist" ->
                        [call EXCEPT !.pc = "return"]
                  [] call.op = "DeleteMetadata" ->
                        [call EXCEPT !.pc = "open",
                                     !.versions = Without(r.versions, call.arg)]
                  [] OTHER ->
                        [call EXCEPT !.pc = "open",
                                     !.versions = Upsert(r.versions, call.arg)]]
        /\ UNCHANGED <<metaFile, mu, settled>>
        /\ ThreadIdle

\* os.WriteFile, first half: the file is created or truncated.
OpenFile(t) ==
    /\ threads[t].pc = "open"
    /\ metaFile' = EmptyMeta
    /\ threads' = [threads EXCEPT ![t].pc = "write"]
    /\ UNCHANGED <<fs, mu, settled>>
    /\ ThreadIdle

\* os.WriteFile, second half: the data is written.
WriteData(t) ==
    /\ threads[t].pc = "write"
    /\ metaFile' = writeMetadataLocked(metaFile, threads[t].versions, "ok")
    /\ threads' = [threads EXCEPT ![t].pc = "return"]
    /\ UNCHANGED <<fs, mu, settled>>
    /\ ThreadIdle

\* The collection after a call that went through, one after another.
Applied(versions, call) ==
    CASE ~call.ok -> versions
      [] call.op = "SaveMetadata" -> Upsert(versions, call.arg)
      [] call.op = "DeleteMetadata" -> Without(versions, call.arg)
      [] OTHER -> versions

\* The deferred s.mu.Unlock() and the return of the call.
ReturnStore(t) ==
    /\ threads[t].pc = "return"
    /\ mu' = 0
    /\ settled' = Applied(settled, threads[t])
    /\ threads' =
         [u \in Threads |->
            IF u = t THEN [threads[t] EXCEPT !.pc = "idle"]
            ELSE IF Going(u) THEN [threads[u] EXCEPT !.window = @ \cup {settled'}]
            ELSE threads[u]]
    /\ UNCHANGED <<fs, metaFile>>
    /\ ThreadIdle

InitLocked ==
    /\ Fresh
    /\ InitPure
    /\ mu = 0
    /\ threads = [t \in Threads |-> Resting]
    /\ settled = <<>>

NextLocked ==
    \E t \in Threads :
        \/ CallStore(t)
        \/ Lock(t)
        \/ ReadFile(t)
        \/ OpenFile(t)
        \/ WriteData(t)
        \/ ReturnStore(t)

SpecLocked == InitLocked /\ [][NextLocked]_vars

(***************************************************************************)
(* UseVersion and Uninstall calls that go on at the same time on one       *)
(* store.  A call advances by one access to the store, the filesystem or   *)
(* the shell configuration at a time; a goroutine keeps the facts of its   *)
(* last call while it rests (res, and met: the calls that went on during   *)
(* it).                                                                    *)
(***************************************************************************)
Waiting ==
    [pc |-> "idle", op |-> "", arg |-> "", force |-> FALSE, versions |-> <<>>,
     target |-> ZeroVersion, current |-> "", i |-> 0, res |-> "", met |-> {}]

Ended(c, res) == [c EXCEPT !.pc = "idle", !.res = res]

\* Switcher.UseVersion from the point c.pc on, up to its next access:
\* <<the call, the files>> afterwards.
UseVersionStep(c, s, shellEnv) ==
    CASE c.pc = "load" ->
            LET r == LoadMetadata(s.meta)
                i == IndexOf(r.versions, c.arg)
            IN  IF r.err # "" \/ i = 0 THEN <<Ended(c, "err"), s>>
                ELSE IF r.versions[i].InstallPath = <<>> THEN <<Ended(c, "err"), s>>
                ELSE <<[c EXCEPT !.pc = "stat", !.versions = r.versions,
                                 !.target = r.versions[i]], s>>
      [] c.pc = "stat" ->
            IF ensureExecutable(s.fs, c.target.InstallPath)
            THEN <<[c EXCEPT !.pc = "configure"], s>>
            ELSE <<Ended(c, "err"), s>>
      [] c.pc = "configure" ->
            LET s1 == ConfigureEnvironment(s, c.target.InstallPath, shellEnv, NoFault)
            IN  IF s1.ret = "run" THEN <<[c EXCEPT !.pc = "marker"], s1>>
                ELSE <<Ended(c, "err"), s1>>
      [] c.pc = "marker" ->
            <<[c EXCEPT !.pc = "flag", !.i = 1],
              SetCurrentVersion(s, c.target.Number, NoFault)>>
      [] OTHER ->
            IF c.i > Len(c.versions) THEN <<Ended(c, "ok"), s>>
            ELSE LET s1 == FlagLoop(s, <<c.versions[c.i]>>, 1, c.target.Number, NoFault)
                 IN  IF s1.ret = "run" THEN <<[c EXCEPT !.i = c.i + 1], s1>>
                     ELSE <<Ended(c, "err"), s1>>

\* Uninstaller.Uninstall from the point c.pc on, up to its next access.
UninstallStep(c, s) ==
    CASE c.pc = "load" ->
            LET r == LoadMetadata(s.meta)
                i == IndexOf(r.versions, c.arg)
            IN  IF r.err # "" \/ i = 0 THEN <<Ended(c, "err"), s>>
                ELSE <<[c EXCEPT !.pc = "current", !.target = r.versions[i]], s>>
      [] c.pc = "current" ->
            LET current == GetCurrentVersionMarker(s.cur) IN
            IF Protected(current, c.target, c.force) THEN <<Ended(c, "err"), s>>
            ELSE <<[c EXCEPT !.pc = "rmdir", !.current = current], s>>
      [] c.pc = "rmdir" ->
            <<[c EXCEPT !.pc = "delete"], RemoveDirStep(s, c.target, NoFault)>>
      [] c.pc = "delete" ->
            LET s1 == DeleteStep(s, c.target, NoFault) IN
            IF s1.ret = "run" THEN <<[c EXCEPT !.pc = "clear"], s1>>
            ELSE <<Ended(c, "err"), s1>>
      [] c.pc = "clear" ->
            <<[c EXCEPT !.pc = "reload"], ClearMarkerStep(s, c.target, c.current, NoFault)>>
      [] OTHER ->
            LET s1 == ReloadStep(s) IN
            IF s1.ret = "run" THEN <<[Ended(c, "ok") EXCEPT !.versions = s1.out], s1>>
            ELSE <<Ended(c, "err"), s1>>

RaceIdle ==
    UNCHANGED <<envShell, last, nfaults, detectorVars, clientVars, pureVars, mu, settled>>

\* Goroutine t makes its call: UseVersion(version) or Uninstall(version,
\* force).
CallCommand(t) ==
    \E op \in {"UseVersion", "Uninstall"}, version \in Numbers, force \in BOOLEAN :
        /\ threads[t].op = ""
        /\ op = "UseVersion" => ~force
        /\ threads' =
             [u \in Threads |->
                IF u = t
                THEN [Waiting EXCEPT !.pc = "load", !.op = op, !.arg = version,
                                     !.force = force,
                                     !.met = {threads[w].op : w \in {x \in Threads : Going(x)}}]
                ELSE IF Going(u) THEN [threads[u] EXCEPT !.met = @ \cup {op}]
                ELSE threads[u]]
        /\ UNCHANGED <<fs, metaFile, curFile, rcFile>>
        /\ RaceIdle

\* The call of goroutine t makes its next access.
StepCommand(t) ==
    /\ Going(t)
    /\ LET begin == Begin(fs, metaFile, curFile, rcFile)
           r == IF threads[t].op = "UseVersion"
                THEN UseVersionStep(threads[t], begin, envShell)
                ELSE UninstallStep(threads[t], begin)
       IN  /\ threads' = [threads EXCEPT ![t] = r[1]]
           /\ fs' = r[2].fs
           /\ metaFile' = r[2].meta
           /\ curFile' = r[2].cur
           /\ rcFile' = r[2].rc
    /\ RaceIdle

\* Install, before the calls that go on at the same time.
InstallFirst ==
    /\ \A t \in Threads : threads[t].op = ""
    /\ \E number \in Numbers, now \in Times :
        LET run == InstallRun(Begin(fs, metaFile, curFile, rcFile),
                              CatalogVersion(number, "good"), "good", now, NoFault)
        IN  Finish(run, NoFault, "Install", number)

InitRace ==
    /\ InitWith({<<"bin", "bash">>})
    /\ mu = 0
    /\ threads = [t \in Threads |-> Waiting]
    /\ settled = <<>>

NextRace ==
    \/ InstallFirst
    \/ \E t \in Threads : CallCommand(t) \/ StepCommand(t)

SpecRace == InitRace /\ [][NextRace]_vars

\* The contents of a downloaded file and the expected checksums: the texts
\* of up to MaxDigest digits, in either case.
MaxDigest == 2

Payloads == {"good", "link", "corrupt"}

ExpectedSums == UNION { [1..n -> {"a", "A", "b", "B", "1", "2"}] : n \in 0..MaxDigest }

InitChecksum ==
    /\ Fresh
    /\ given \in [data : Payloads, expected : ExpectedSums]
    /\ answer = NotCalled
    /\ InitThreads

\* Downloader.verifyChecksum(path, expected) on the file that holds
\* given.data.
VerifyChecksum ==
    /\ ~answer.done
    /\ answer' = Returned(verifyChecksum(given.data, given.expected))
    /\ UNCHANGED <<given, storeVars, detectorVars, clientVars, threadVars>>

SpecChecksum == InitChecksum /\ [][VerifyChecksum]_vars

\* The country codes main may be handed by the detector or by a caller: the
\* sequences of up to MaxCode of these characters.
MaxCode == 4

CodeChars == {"C", "N", "c", "n", "U", " ", "\n"}

CountryCodes == UNION { [1..n -> CodeChars] : n \in 0..MaxCode }

InitMirror ==
    /\ Fresh
    /\ given \in [code : CountryCodes, files : {ReleasesA, ReleasesB}]
    /\ answer = NotCalled
    /\ InitThreads

\* main, lines 30-40, and the FetchVersions call of the client it builds,
\* answered by a catalog that lists given.files.
RunMain ==
    /\ ~answer.done
    /\ LET mirror == SelectMirror(given.code)
           client == WithDownloadBase(WithBaseURL(NewClient, mirror.APIBase),
                                      mirror.DownloadBase)
           r == parseVersions([json |-> TRUE, releases |-> given.files])
       IN  answer' = Returned([mirror |-> mirror, client |-> client,
                               versions |-> r.versions])
    /\ UNCHANGED <<given, storeVars, detectorVars, clientVars, threadVars>>

SpecMirror == InitMirror /\ [][RunMain]_vars

\* normalizeVersion of the command line.
cliNormalizeVersion(str) == TrimGo(TrimSpaces(str))

\* findVersion: [found, version].
findVersion(versions, number) ==
    LET hits == {i \in 1..Len(versions) : versions[i].Number = number}
    IN  IF hits = {} THEN [found |-> FALSE, version |-> <<>>]
        ELSE [found |-> TRUE,
              version |-> versions[CHOOSE i \in hits : \A j \in hits : i <= j]]

\* The files of the two releases for the architectures of the allow-list,
\* the version arguments of the command line and the hosts.
HostFiles ==
    { ReleaseFile(v, "linux", a, "archive") : v \in {V120, V121}, a \in supportedArch }

HostCatalogs == UNION { [1..n -> HostFiles] : n \in 0..MaxFiles }

VersionArgs == { <<"1", ".", "2", "1">>, V121, <<" ", "1", ".", "2", "0", " ">> }

InitHost ==
    /\ Fresh
    /\ given \in [catalog : HostCatalogs, arg : VersionArgs, goarch : supportedArch]
    /\ answer = NotCalled
    /\ InitThreads

\* App.handleInstall up to the call of Install: the entry it hands over.
\* given.goarch is runtime.GOARCH, which handleInstall does not consult.
HandleInstall ==
    /\ ~answer.done
    /\ answer' = Returned(findVersion(
                    parseVersions([json |-> TRUE, releases |-> given.catalog]).versions,
                    cliNormalizeVersion(given.arg)))
    /\ UNCHANGED <<given, storeVars, detectorVars, clientVars, threadVars>>

SpecHost == InitHost /\ [][HandleInstall]_vars

(***************************************************************************)
(* Properties.                                                             *)
(***************************************************************************)
\* The records the store holds.
Records(m) == LoadMetadata(m).versions

HasRecord(m, number) == IndexOf(Records(m), number) # 0

\* The archive that Install fetched and verified in the call that ran last.
FetchedArchive(l, f) ==
    IF /\ l.op = "Install"
       /\ \E i \in 1..Len(l.steps) : l.steps[i] = Step("verify", TRUE)
       /\ l.at # "finalize"
    THEN f[DownloadsDir \o <<CatalogVersion(l.arg, "good").FileName>>].data
    ELSE ""

\* The files of f that f0 does not hold with the same content.
WrittenFiles(f0, f) ==
    {p \in DOMAIN f : f[p].kind = "file" /\ (p \notin DOMAIN f0 \/ f0[p] # f[p])}

\* C1: in every reachable state, also in those left behind by a call that
\* returned an error part-way through, at most one metadata record has
\* IsCurrent set.
C1_AtMostOneCurrent ==
    LET versions == Records(metaFile) IN
    Cardinality({i \in 1..Len(versions) : versions[i].IsCurrent}) <= 1

\* C2: after every call has returned, with success or with an error, the
\* active marker is empty or equals the Number of a record that is present.
C2_MarkerNamesRecord ==
    LET current == GetCurrentVersionMarker(curFile) IN
    current = "" \/ HasRecord(metaFile, current)

\* C3: an Install(v) that returns an error leaves no temporary extraction
\* directory, no new directory at the install path of v and no new record
\* for v.
C3_FailedInstallLeavesNothing ==
    [][(last'.op = "Install" /\ last'.res = "err") =>
          /\ ~Exists(fs', TempDir)
          /\ Exists(fs', GetInstallPath(last'.arg)) => Exists(fs, GetInstallPath(last'.arg))
          /\ HasRecord(metaFile', last'.arg) => HasRecord(metaFile, last'.arg)]_vars

\* C4: an Install whose archive holds an entry escaping the extraction root
\* (go/../../x) fails with an extraction error, writes no file from that
\* entry or from a later one, leaves no install directory and writes no
\* record.
C4_TraversalFailsInstall ==
    [][FetchedArchive(last', fs') = "traversal" =>
          /\ last'.res = "err" /\ last'.at = "extract"
          /\ \A p \in WrittenFiles(fs, fs') : fs'[p].data \notin {"escaped", "after"}
          /\ ~Exists(fs', GetInstallPath(last'.arg))
          /\ ~HasRecord(metaFile', last'.arg)]_vars

\* C5: when UseVersion(n) returns an error, at whatever step, the managed
\* block does not name the install path of n while the active marker names
\* another version or none.
C5_FailedUseKeepsBlockAndMarker ==
    [][(last'.op = "UseVersion" /\ last'.res = "err") =>
          ~ /\ \E name \in RcNames : GetInstallPath(last'.arg) \in BlockRoots(rcFile'[name])
            /\ GetCurrentVersionMarker(curFile') # last'.arg]_vars

\* A configuration file that holds a whole managed block for goRoot.
WholeBlock(c, goRoot) ==
    /\ c.st = "ok"
    /\ \E i \in 1..Len(c.lines) :
          /\ c.lines[i] = GorootLine(goRoot)
          /\ \E j \in (i + 1)..Len(c.lines) : c.lines[j] = blockEnd

\* C6: a process that dies during a write of the metadata file, the active
\* marker or the shell configuration file leaves the complete previous
\* content or the complete new content, never an empty or partly written
\* file.
C6_CrashLeavesCompleteFile ==
    [][last'.res = "crash" =>
          /\ metaFile' = metaFile \/ metaFile'.st = "ok"
          /\ \/ curFile' = curFile
             \/ curFile' = CurText(IF last'.op = "UseVersion" THEN last'.arg ELSE "")
          /\ \A name \in RcNames :
                \/ rcFile'[name] = rcFile[name]
                \/ WholeBlock(rcFile'[name], GetInstallPath(last'.arg))]_vars

\* C7: when the digest of the downloaded bytes differs from the expected
\* checksum, Download returns an error and no file exists at the final
\* download path afterwards, whatever calls came before; the Install fails
\* and writes no record.
C7_MismatchLeavesNoDownload ==
    [][(last'.op = "Install" /\ last'.at = "verify") =>
          /\ last'.res = "err"
          /\ ~Exists(fs', DownloadsDir \o <<CatalogVersion(last'.arg, "good").FileName>>)
          /\ metaFile' = metaFile]_vars

\* The store holds a record for `number` and the directory it names exists.
Installed(f, m, number) ==
    \E i \in 1..Len(Records(m)) :
        /\ Records(m)[i].Number = number
        /\ Stat(f, Records(m)[i].InstallPath) = "dir"

\* C8: when a record for v exists and the directory it names exists,
\* Install(v) returns success without a network request and leaves the
\* metadata, the active marker and the install directories as they were,
\* however often it is repeated.
C8_InstalledIsNoOp ==
    [][(last'.op = "Install" /\ Installed(fs, metaFile, last'.arg)) =>
          /\ last'.res = "ok" /\ last'.net = 0
          /\ fs' = fs /\ metaFile' = metaFile /\ curFile' = curFile]_vars

\* An Install of an installed version has returned.
C8_Witness ==
    /\ last.op = "Install" /\ last.res = "ok" /\ last.net = 0
    /\ Installed(fs, metaFile, last.arg)

InstallOrder == <<"download", "verify", "extract", "move", "save">>

\* C9: an Install that is not cut short runs download, verification,
\* extraction, move and save in this order, no step starting before the one
\* before it has succeeded; the record is written only after all the others
\* have succeeded, and after a success it is present with the resolved
\* install path and the install time.
C9_InstallStepsInOrder ==
    [][last'.op = "Install" =>
          LET steps == last'.steps
              versions == Records(metaFile')
              i == IndexOf(versions, last'.arg)
          IN  /\ Len(steps) <= Len(InstallOrder)
              /\ \A k \in 1..Len(steps) : steps[k].name = InstallOrder[k]
              /\ \A k \in 1..(Len(steps) - 1) : steps[k].ok
              /\ metaFile' # metaFile => Len(steps) = Len(InstallOrder)
              /\ (last'.res = "ok" /\ last'.net > 0) =>
                    /\ Len(steps) = Len(InstallOrder) /\ steps[Len(steps)].ok
                    /\ i # 0
                    /\ versions[i].InstallPath = GetInstallPath(last'.arg)
                    /\ versions[i].InstalledAt \in Times]_vars

\* An Install has gone through all its steps and has stored the record.
C9_Witness ==
    /\ last.op = "Install" /\ last.res = "ok" /\ last.net = 1
    /\ Len(last.steps) = Len(InstallOrder)
    /\ HasRecord(metaFile, last.arg)

\* What f holds at root and below.
Subtree(f, root) == [p \in {q \in DOMAIN f : IsPrefix(root, q)} |-> f[p]]

\* C10: when a directory exists at the install path of v and Install(v)
\* ends before the extraction has succeeded, the directory holds what it
\* held before the call; the previous directory is removed only after the
\* extraction has succeeded.
C10_PreviousDirKeptUntilExtracted ==
    [][(/\ last'.op = "Install"
        /\ Exists(fs, GetInstallPath(last'.arg))
        /\ \A k \in 1..Len(last'.steps) : last'.steps[k] # Step("extract", TRUE)) =>
          Subtree(fs', GetInstallPath(last'.arg)) = Subtree(fs, GetInstallPath(last'.arg))]_vars

\* The indexes of the lines of a text that are the sentinel line `mark`.
SentinelLines(lines, mark) == {i \in 1..Len(lines) : TrimLine(lines[i]) = mark}

\* The configuration file that UseVersion rewrites in this session.
SessionRc(rc) == rc[configFileForShell(rcFile, DetectShell(envShell))]

\* C11: whatever the configuration file held before (no managed block, one,
\* several, unbalanced sentinel lines), after a successful UseVersion it
\* holds exactly one start sentinel line and exactly one end sentinel line,
\* and the block between them names the install path of that call.
C11_ExactlyOneBlock ==
    [][(last'.op = "UseVersion" /\ last'.res = "ok") =>
          LET lines == SessionRc(rcFile').lines
              starts == SentinelLines(lines, blockStart)
              ends == SentinelLines(lines, blockEnd)
          IN  /\ SessionRc(rcFile').st = "ok"
              /\ Cardinality(starts) = 1
              /\ Cardinality(ends) = 1
              /\ \E i \in starts, j \in ends :
                    /\ i < j
                    /\ \E k \in (i + 1)..(j - 1) :
                          lines[k] = GorootLine(GetInstallPath(last'.arg))
                    /\ \A k \in (i + 1)..(j - 1), n \in Numbers :
                          lines[k] = GorootLine(GetInstallPath(n)) => n = last'.arg]_vars

\* A successful UseVersion has rewritten a file that first held a start
\* sentinel line without an end, for a version the old lines did not name.
C11_Witness ==
    /\ last.op = "UseVersion" /\ last.res = "ok" /\ last.arg = AllNumbers[1]
    /\ \E i \in 1..Len(SessionRc(rcFile).lines) :
          SessionRc(rcFile).lines[i] = "# unbalanced"

\* Line i of a text lies in a managed block: a start sentinel line comes
\* before it with no end sentinel line in between, and an end sentinel line
\* comes after it.
InBlock(lines, i) ==
    /\ \E b \in 1..(i - 1) :
          /\ TrimLine(lines[b]) = blockStart
          /\ \A k \in (b + 1)..(i - 1) : TrimLine(lines[k]) # blockEnd
    /\ \E e \in (i + 1)..Len(lines) : TrimLine(lines[e]) = blockEnd

\* The lines of a text that are not blank, are no sentinel lines and lie in
\* no managed block, in their order.
RECURSIVE OutsideFrom(_, _)
OutsideFrom(lines, i) ==
    IF i > Len(lines) THEN <<>>
    ELSE IF \/ TrimLine(lines[i]) \in {"", blockStart, blockEnd}
            \/ InBlock(lines, i)
         THEN OutsideFrom(lines, i + 1)
         ELSE <<lines[i]>> \o OutsideFrom(lines, i + 1)

OutsideLines(lines) == OutsideFrom(lines, 1)

\* C12: a rewrite of the shell configuration keeps every line outside a
\* sentinel-delimited managed block, with its text and in its order, also
\* when the file holds a start sentinel line with no end sentinel line after
\* it (blank lines, which the rewrite normalizes, are left out).
C12_OutsideLinesPreserved ==
    [][(last'.op = "UseVersion" /\ last'.res = "ok") =>
          OutsideLines(SessionRc(rcFile').lines) = OutsideLines(SessionRc(rcFile).lines)]_vars

\* C13: after UseVersion(n) has returned success the active marker is n, the
\* record with Number n has its active flag set, no other record has, and
\* CurrentVersion() returns the record for n.
C13_UseVersionActivates ==
    [][(last'.op = "UseVersion" /\ last'.res = "ok") =>
          LET versions == Records(metaFile')
              i == IndexOf(versions, last'.arg)
              current == CurrentVersion(fs', metaFile', curFile')
          IN  /\ GetCurrentVersionMarker(curFile') = last'.arg
              /\ i # 0
              /\ \A k \in 1..Len(versions) : versions[k].IsCurrent <=> k = i
              /\ ~current.err /\ current.found
              /\ current.version = versions[i]]_vars

\* UseVersion has made the second of two records the active one.
C13_Witness ==
    /\ last.op = "UseVersion" /\ last.res = "ok"
    /\ Len(Records(metaFile)) = 2
    /\ Records(metaFile)[2].Number = last.arg
    /\ Records(metaFile)[2].IsCurrent

\* C14: Uninstall(n, force = FALSE) called while the active marker is n
\* returns an error and leaves the install directory of n, the metadata and
\* the active marker as they were.
C14_ActiveNeedsForce ==
    \A n \in Numbers, ft \in UninstallErrFaults :
        GetCurrentVersionMarker(curFile) = n =>
            LET run == UninstallRun(Begin(fs, metaFile, curFile, rcFile), n, FALSE, ft)
            IN  /\ run.ret = "err"
                /\ Subtree(run.fs, GetInstallPath(n)) = Subtree(fs, GetInstallPath(n))
                /\ run.meta = metaFile
                /\ run.cur = curFile

\* An Uninstall without force of the active version has been turned down.
C14_Witness ==
    /\ last.op = "Uninstall" /\ last.res = "err" /\ last.at = "active"
    /\ GetCurrentVersionMarker(curFile) = last.arg
    /\ Exists(fs, GetInstallPath(last.arg))

\* C15: after Uninstall(n, force) has returned success no directory exists
\* at the install path recorded for n, no record has Number n, every other
\* record is unchanged, the active marker is empty if it was n and unchanged
\* otherwise, and the returned collection is the stored one.
C15_UninstallRemoves ==
    \A n \in Numbers, force \in BOOLEAN :
        LET run == UninstallRun(Begin(fs, metaFile, curFile, rcFile), n, force, NoFault)
            before == Records(metaFile)
            after == Records(run.meta)
            marker == GetCurrentVersionMarker(curFile)
        IN  run.ret = "ok" =>
                /\ ~Exists(run.fs, before[IndexOf(before, n)].InstallPath)
                /\ \A k \in 1..Len(after) : after[k].Number # n
                /\ after = SelectSeq(before, LAMBDA v : v.Number # n)
                /\ IF marker = n THEN GetCurrentVersionMarker(run.cur) = ""
                   ELSE run.cur = curFile
                /\ run.out = after

\* The active version has been uninstalled with force, another one stays.
C15_Witness ==
    /\ last.op = "Uninstall" /\ last.res = "ok"
    /\ \E k \in 1..Len(last.steps) : last.steps[k] = Step("marker", TRUE)
    /\ Len(Records(metaFile)) = 1
    /\ ~Exists(fs, GetInstallPath(last.arg))

\* C16: in every reachable state, also after calls that returned an error
\* part-way, every record has a non-empty install path, and a version has a
\* record exactly when its install directory exists.
C16_RecordIffDirectory ==
    /\ \A k \in 1..Len(Records(metaFile)) : Records(metaFile)[k].InstallPath # <<>>
    /\ \A n \in Numbers :
          HasRecord(metaFile, n) <=> Stat(fs, GetInstallPath(n)) = "dir"

\* C17: whatever the interleaving of concurrent CountryCode calls on one
\* Detector, all calls that return successfully return the same code, the
\* one held in the cache, also when their probes got different codes.
C17_ConcurrentCallsAgree == \A code \in returned : code = cache

\* C18: once a CountryCode call has returned a code, every later call on the
\* Detector returns the same code and issues no HTTP request.
C18_LaterCallsUseCache ==
    lastCall.seen # {} =>
        /\ lastCall.res = "ok"
        /\ \A code \in lastCall.seen : lastCall.code = code
        /\ lastCall.reqs = 0

\* The text of a body holds no code.
Blank(text) == text \in {"", " \n"}

PrimaryFailed(resp) == resp.err \/ resp.status # 200 \/ Blank(resp.body.text)

FallbackFailed(resp) ==
    resp.err \/ resp.status # 200 \/ ~resp.body.json \/ Blank(resp.body.text)

\* C19: a CountryCode call made with an empty cache probes the primary
\* endpoint first and the fallback endpoint only if the primary probe failed
\* (transport error, status other than 200, empty or unparsable code); when
\* both probes fail the call returns an error and stores nothing in the
\* cache, so that the next call probes again.
C19_PrimaryThenFallback ==
    [][/\ \A p \in Callers :
             (calls[p].pc = "check" /\ calls'[p].pc # "check" /\ cache = "") =>
                 calls'[p].pc = "primary"
       /\ lastCall' # lastCall =>
             LET probes == lastCall'.probes IN
             /\ Len(probes) <= 2
             /\ Len(probes) >= 1 => probes[1].endpoint = defaultEndpoint
             /\ Len(probes) = 2 <=>
                   (Len(probes) >= 1 /\ PrimaryFailed(probes[1].resp) /\ fallbackEndpoint # "")
             /\ Len(probes) = 2 => probes[2].endpoint = fallbackEndpoint
             /\ (Len(probes) = 2 /\ FallbackFailed(probes[2].resp)) =>
                   (lastCall'.res = "err" /\ cache' = cache)
             /\ (Len(probes) >= 1 /\ lastCall'.res = "err") =>
                   /\ PrimaryFailed(probes[1].resp)
                   /\ Len(probes) = 2 => FallbackFailed(probes[2].resp)]_vars

\* A call has returned an error after both probes failed, the cache is
\* empty and a call that started afterwards is probing the primary endpoint.
C19_Witness ==
    /\ lastCall.res = "err" /\ Len(lastCall.probes) = 2
    /\ cache = ""
    /\ calls[lastCall.caller].pc = "primary"

\* C20: after a FetchVersions call has succeeded with a non-empty list, every
\* further call made before the time-to-live has elapsed returns an equal
\* list without an HTTP request, whatever the caller did to the lists it was
\* handed; the first call after the time-to-live has elapsed, or with an
\* empty cache, issues a new request.
C20_CacheServesUntilExpiry ==
    [][nfetch' # nfetch =>
          IF fetched.list # <<>> /\ clock - fetched.at <= CacheTTL
          THEN /\ lastFetch'.res = "ok"
               /\ lastFetch'.list = fetched.list
               /\ lastFetch'.net = 0
          ELSE lastFetch'.net = 1]_vars

\* A call has been served from the cache, some time after the list was
\* fetched and after the caller changed a list it was handed.
C20_Witness ==
    /\ lastFetch.res = "ok" /\ lastFetch.net = 0
    /\ fetched.touched
    /\ clock > fetched.at
    /\ lastFetch.list = fetched.list

\* What the cache serves at time now: the list a FetchVersions call would be
\* handed without a request, empty when there is none.
Serves(c, at, now) == IF c # <<>> /\ now - at <= CacheTTL THEN c ELSE <<>>

\* The request was answered by a transport error, a status other than 200 or
\* a body that does not parse.
BadAnswer(resp) == resp.err \/ resp.status # 200 \/ ~resp.body.json

C22_AdjacentNonIncreasing ==
    answer.done =>
        \A i \in 1..(Len(answer.value) - 1) :
            compareVersionStrings(answer.value[i].FullName,
                                  answer.value[i + 1].FullName) # 2

\* A list of three versions was returned whose catalog listed them in
\* another order.
C22_Witness ==
    /\ answer.done
    /\ Len(answer.value) = MaxFiles
    /\ \E i \in 1..Len(given) : given[i].version # answer.value[i].FullName
    /\ compareVersionStrings(answer.value[1].FullName, answer.value[MaxFiles].FullName) = 1

\* The orders in which a catalog can list the given files.
Reorderings(files) ==
    { [i \in 1..Len(files) |-> files[f[i]]] :
        f \in { g \in [1..Len(files) -> 1..Len(files)] :
                  \A i, j \in 1..Len(files) : g[i] = g[j] => i = j } }

\* C23: the list parseVersions returns is the same for every order in which
\* the catalog lists its files, and the architecture decides the order of
\* two entries only when their full version names are equal.
C23_OrderIndependent ==
    answer.done =>
        /\ \A files \in Reorderings(given) :
              parseVersions([json |-> TRUE, releases |-> files]).versions = answer.value
        /\ \A i, j \in 1..Len(answer.value) :
              compareVersionStrings(answer.value[i].FullName,
                                    answer.value[j].FullName) = 0
                  => answer.value[i].FullName = answer.value[j].FullName

\* The tuple (major, minor, patch, label rank, prerelease number) of a name.
PrecedenceTuple(v) ==
    LET p == normalizeVersion(v) IN
    <<p.major, p.minor, p.patch, prereleaseRank(p.prerelease), p.prereleaseNum>>

\* The lexicographic comparison of two tuples of numbers from place i on,
\* with 2 for lower.
RECURSIVE LexCompare(_, _, _)
LexCompare(x, y, i) ==
    IF i > Len(x) THEN 0
    ELSE IF x[i] > y[i] THEN 1
    ELSE IF x[i] < y[i] THEN 2
    ELSE LexCompare(x, y, i + 1)

\* C24: compareVersionStrings(a, b) is the lexicographic comparison of the
\* tuples (major, minor, patch, label rank, prerelease number) of a and b.
C24_CompareIsLexicographic ==
    answer.done =>
        answer.value = LexCompare(PrecedenceTuple(given[1]), PrecedenceTuple(given[2]), 1)

\* The entries of archive a all lie under one top-level directory.
UnderOneTop(a) ==
    /\ a.gzip /\ a.entries # <<>>
    /\ \A i \in 1..Len(a.entries) :
          /\ Clean(a.entries[i].name) # <<>>
          /\ Head(Clean(a.entries[i].name)) = Head(Clean(a.entries[1].name))
          /\ Head(Clean(a.entries[i].name)) # ".."

\* C25: after a successful Install of an archive whose entries all lie under
\* one top-level directory T, whatever its name, every file T/p of the
\* archive is at <install path>/p with its content.
C25_TopLevelStripped ==
    [][(last'.op = "Install" /\ last'.res = "ok" /\ last'.net = 1) =>
          LET id == FetchedArchive(last', fs') IN
          (id \in ArchiveIds /\ UnderOneTop(ArchiveOf(id))) =>
              \A i \in 1..Len(ArchiveOf(id).entries) :
                  LET e == ArchiveOf(id).entries[i]
                      p == GetInstallPath(last'.arg) \o Tail(Clean(e.name))
                  IN  e.type = "reg" =>
                          /\ p \in DOMAIN fs'
                          /\ fs'[p].kind = "file"
                          /\ fs'[p].data = e.data]_vars

\* C26: when the catalog lists the requested version for the architecture
\* of the host, the entry handed to Install is of that architecture.
C26_HostArchitectureInstalled ==
    answer.done =>
        LET listed == parseVersions([json |-> TRUE, releases |-> given.catalog]).versions
            number == cliNormalizeVersion(given.arg)
        IN  (\E i \in 1..Len(listed) :
                listed[i].Number = number /\ listed[i].Arch = given.goarch)
            => /\ answer.value.found
               /\ answer.value.version.Number = number
               /\ answer.value.version.Arch = given.goarch

NamedShell(shellEnv) == IF shellEnv = <<>> THEN "" ELSE shellEnv[Len(shellEnv)]

\* C28: a UseVersion call for an installed version, in a session whose $SHELL
\* names neither bash nor zsh or is unset, returns the unsupported-shell
\* error and leaves the shell configuration files, the active marker and the
\* metadata as they were.
C28_UnsupportedShellFails ==
    [][(/\ last'.op = "UseVersion"
        /\ Installed(fs, metaFile, last'.arg)
        /\ ensureExecutable(fs, GetInstallPath(last'.arg))
        /\ NamedShell(envShell) \notin {"bash", "zsh"}) =>
          /\ last'.res = "err" /\ last'.at = "shell"
          /\ rcFile' = rcFile /\ curFile' = curFile /\ metaFile' = metaFile]_vars

\* The records of versions whose Number is not number, in their order.
RECURSIVE Others(_, _)
Others(versions, number) ==
    IF versions = <<>> THEN <<>>
    ELSE IF Head(versions).Number = number THEN Others(Tail(versions), number)
    ELSE <<Head(versions)>> \o Others(Tail(versions), number)

\* C29: no two stored records share a Number; SaveMetadata(v) puts v in the
\* place of the record with v's Number, or behind the others when there is
\* none, and leaves the other records as they were; DeleteMetadata(n) removes
\* the record with Number n only and succeeds also when there is none.
C29_RecordsKeyedByNumber ==
    [][LET old == Records(metaFile)
           new == Records(metaFile')
       IN  /\ \A i, j \in 1..Len(new) : new[i].Number = new[j].Number => i = j
           /\ last'.op = "SaveMetadata" =>
                 /\ last'.res = "ok"
                 /\ Others(new, given'.Number) = Others(old, given'.Number)
                 /\ \E i \in 1..Len(new) :
                       /\ new[i] = given'
                       /\ IF HasRecord(metaFile, given'.Number)
                          THEN old[i].Number = given'.Number /\ Len(new) = Len(old)
                          ELSE i = Len(new) /\ Len(new) = Len(old) + 1
           /\ last'.op = "DeleteMetadata" =>
                 /\ last'.res = "ok"
                 /\ new = Others(old, given')
                 /\ ~HasRecord(metaFile, given') => new = old]_vars

\* A record was replaced by one of the same Number while another record was
\* stored, and a DeleteMetadata has found no record of its number.
C29_Witness ==
    \/ /\ last.op = "SaveMetadata" /\ Len(Records(metaFile)) = NumVersions
       /\ Records(metaFile)[1] = given /\ given.IsCurrent /\ given.InstalledAt = MaxTime
    \/ /\ last.op = "DeleteMetadata" /\ last.res = "ok" /\ metaFile.st = "absent"

Stored == LoadMetadata(metaFile).versions

\* C31: the calls on one store take effect one after another.  Whenever no
\* call is going on, the file holds the collection that the calls that went
\* through leave when each is applied whole, in the order in which they
\* returned: two SaveMetadata calls of different numbers that went on at the
\* same time leave both records.  A LoadMetadata call returns a collection
\* that calls that had returned had left at some moment between its start
\* and its return, never a collection in the middle of a rewrite.
C31_StoreCallsAtomic ==
    /\ (\A t \in DOMAIN threads : ~Going(t)) => Stored = settled
    /\ \A t \in DOMAIN threads :
          threads[t].op = "LoadMetadata" /\ threads[t].pc \in {"return", "idle"}
            => threads[t].ok /\ threads[t].out \in threads[t].window

\* Two SaveMetadata calls of different numbers went on at the same time and
\* have returned, and both records are there.
C31_Witness ==
    /\ DOMAIN threads = Threads
    /\ \A t \in Threads :
          /\ ~Going(t)
          /\ threads[t].op = "SaveMetadata"
          /\ "SaveMetadata" \in threads[t].met
    /\ threads[1].arg.Number # threads[2].arg.Number
    /\ Len(Stored) = 2

\* The file entry meets the three conditions.
Qualifies(f) ==
    f.os = "linux" /\ f.arch \in {"amd64", "arm64", "386"} /\ f.kind = "archive"

\* The entry v of the result is the one of the file entry f.
FromFile(v, f) ==
    /\ v.FullName = f.version /\ v.FileName = f.filename /\ v.Checksum = f.sha256
    /\ v.OS = f.os /\ v.Arch = f.arch

\* C32: every entry of a list FetchVersions returns has OS linux and one of
\* the three architectures; when the call fetched the catalog, every entry
\* is that of a file entry of the response of kind archive that meets the
\* conditions, and every such file entry has as many entries in the list as
\* the response lists it (one when it is listed once).
C32_ExactlyTheQualifyingFiles ==
    lastFetch.res = "ok" =>
        LET list == lastFetch.list
            files == lastFetch.resp.body.releases
        IN  /\ \A i \in 1..Len(list) :
                  list[i].OS = "linux" /\ list[i].Arch \in {"amd64", "arm64", "386"}
            /\ lastFetch.net = 1 =>
                  /\ \A i \in 1..Len(list) :
                        \E j \in 1..Len(files) :
                            Qualifies(files[j]) /\ FromFile(list[i], files[j])
                  /\ \A j \in 1..Len(files) :
                        Qualifies(files[j]) =>
                            Cardinality({i \in 1..Len(list) : FromFile(list[i], files[j])})
                              = Cardinality({k \in 1..Len(files) : files[k] = files[j]})

\* A call has fetched a catalog that lists a file that qualifies, a file of
\* another kind and a file of an architecture outside the list.
C32_Witness ==
    /\ lastFetch.res = "ok" /\ lastFetch.net = 1
    /\ Len(lastFetch.list) = 1
    /\ \E j \in 1..Len(lastFetch.resp.body.releases) :
          LET f == lastFetch.resp.body.releases[j] IN
          f.os = "linux" /\ f.kind = "archive" /\ f.arch = "riscv64"
    /\ \E j \in 1..Len(lastFetch.resp.body.releases) :
          lastFetch.resp.body.releases[j].kind = "installer"

\* C33: every Version of a list FetchVersions returns has the download base
\* configured for the client, immediately followed by the file name, as its
\* download URL; with the regional mirror selected the URL starts with the
\* regional download base.
C33_UrlIsConfiguredBaseAndName ==
    answer.done =>
        \A i \in 1..Len(answer.value.versions) :
            answer.value.versions[i].DownloadURL
              = <<answer.value.client.downloadBase, answer.value.versions[i].FileName>>

\* The country code is CN in some mix of cases, with nothing but white space
\* before and after it.
NamesCN(c) ==
    \E i \in 1..Len(c) :
        /\ i < Len(c)
        /\ <<c[i], c[i + 1]>> \in {<<"C", "N">>, <<"C", "n">>, <<"c", "N">>, <<"c", "n">>}
        /\ \A k \in (1..Len(c)) \ {i, i + 1} : c[k] \in {" ", "\t", "\n", "\r"}

\* C35: SelectMirror(c) is the regional mirror exactly when c without the
\* white space around it is CN in any mix of cases, and the default mirror
\* for every other c, the empty one included.
C35_RegionalExactlyForCN ==
    answer.done =>
        answer.value.mirror = IF NamesCN(given.code) THEN StudyGolangMirror
                              ELSE GoDevMirror

\* The regional mirror was selected for a code in mixed case with white
\* space around it.
C35_Witness ==
    /\ answer.done
    /\ given.code = <<" ", "c", "N", "\n">>
    /\ answer.value.mirror = StudyGolangMirror

\* The two texts are equal when the case of their letters is ignored.
SameIgnoringCase(a, b) ==
    /\ Len(a) = Len(b)
    /\ \A i \in 1..Len(a) :
          \/ a[i] = b[i]
          \/ {a[i], b[i]} \in {{"a", "A"}, {"b", "B"}}

\* C34: verifyChecksum accepts the file if and only if the expected checksum
\* is not empty and equals the hexadecimal digest of the file's content when
\* the case of the letters is ignored.
C34_AcceptsExactlyTheDigest ==
    answer.done =>
        (answer.value <=>
            /\ given.expected # <<>>
            /\ SameIgnoringCase(given.expected, Sha256Hex(given.data)))

\* A checksum in upper case was accepted for the file it is the digest of.
C34_Witness ==
    /\ answer.done
    /\ answer.value
    /\ given.expected # Sha256Hex(given.data)

\* C36: when a UseVersion(a) call and an Uninstall(b) call for another
\* version b went on at the same time and both have returned, Uninstall with
\* success, the store holds no record of b.
C36_UseVersionKeepsDeleted ==
    \A t \in DOMAIN threads, u \in DOMAIN threads :
        (/\ threads[t].pc = "idle" /\ threads[t].op = "UseVersion"
         /\ threads[u].pc = "idle" /\ threads[u].op = "Uninstall"
         /\ threads[u].res = "ok"
         /\ threads[t].arg # threads[u].arg
         /\ "Uninstall" \in threads[t].met)
        => ~HasRecord(metaFile, threads[u].arg)

\* The filesystem with the archive of the content `id` downloaded and the
\* destination root of an extraction made.
Placed(f, id) ==
    Put(MkdirAll(MkdirAll(f, DownloadsDir).fs, DestDir).fs,
        DownloadsDir \o <<"archive">>, FileNode(id))

\* C37: whatever the store holds, the extraction of an archive into the
\* destination root creates or overwrites no file outside that root, also
\* when the archive holds a symbolic link that points outside the root and
\* then a regular file whose path passes through the link.
C37_ExtractionStaysInRoot ==
    \A id \in CoreArchives :
        LET before == Placed(fs, id)
            x == extractTarGz(before, DownloadsDir \o <<"archive">>, DestDir,
                              Len(ArchiveOf(id).entries))
        IN  \A p \in WrittenFiles(before, x.fs) : IsPrefix(DestDir, p)

\* C38: after an Install, UseVersion or Uninstall call that has returned
\* without an error, a stored record has IsCurrent set if and only if its
\* Number is the one the active marker names.
C38_FlagIffMarker ==
    (last.op \in {"Install", "UseVersion", "Uninstall"} /\ last.res = "ok") =>
        \A i \in 1..Len(Records(metaFile)) :
            Records(metaFile)[i].IsCurrent
              <=> Records(metaFile)[i].Number = GetCurrentVersionMarker(curFile)

\* C40: after any sequence of Install, UseVersion and Uninstall calls that
\* all returned without an error, an install path that a managed block of a
\* shell configuration file names is the install directory of the version
\* the active marker names, and that directory exists.
C40_BlockNamesActiveInstall ==
    \A n \in RcNames :
        \A p \in BlockRoots(rcFile[n]) :
            /\ GetCurrentVersionMarker(curFile) # ""
            /\ p = GetInstallPath(GetCurrentVersionMarker(curFile))
            /\ Stat(fs, p) = "dir"

\* The outcome of the comparison with its arguments exchanged.
Opposite(cmp) == CASE cmp = 1 -> 2 [] cmp = 2 -> 1 [] OTHER -> 0

\* C39: compareVersionStrings is a strict weak order on the version names:
\* exchanging the arguments turns the outcome around, higher-than is
\* transitive and so is the tie, also for names whose prerelease label is
\* neither rc nor beta.
C39_StrictWeakOrder ==
    answer.done =>
        /\ answer.value.ba = Opposite(answer.value.ab)
        /\ (answer.value.ab = 1 /\ answer.value.bc = 1) => answer.value.ac = 1
        /\ (answer.value.ab = 0 /\ answer.value.bc = 0) => answer.value.ac = 0
====
